---- MODULE Spec2Model ----
(***************************************************************************)
(* Resilience-and-interpretation core of YT-NINJA: the error classifier,   *)
(* the retry executor (RetryHandler.withRetry) and the structured-text     *)
(* extractors of GenAIClient / AIAnalyzer.                                 *)
(*                                                                         *)
(* Text is modelled character by character (a string is a sequence of      *)
(* one-character strings) so that String.prototype.includes and            *)
(* toLowerCase are computed, not assumed.                                  *)
(***************************************************************************)
EXTENDS Integers, Sequences, FiniteSets, TLC

(***************************************************************************)
(* Strings                                                                 *)
(***************************************************************************)
\* Keyword literals of the classifier rules and of isRetryableError, one character per element.
KW ==
  [not_found |-> <<"n","o","t"," ","f","o","u","n","d">>,
   does_not_exist |-> <<"d","o","e","s"," ","n","o","t"," ","e","x","i","s","t">>,
   private |-> <<"p","r","i","v","a","t","e">>,
   unavailable |-> <<"u","n","a","v","a","i","l","a","b","l","e">>,
   age |-> <<"a","g","e">>,
   restricted |-> <<"r","e","s","t","r","i","c","t","e","d">>,
   geo |-> <<"g","e","o">>,
   region |-> <<"r","e","g","i","o","n">>,
   country |-> <<"c","o","u","n","t","r","y">>,
   rate |-> <<"r","a","t","e">>,
   quota |-> <<"q","u","o","t","a">>,
   limit |-> <<"l","i","m","i","t">>,
   timeout |-> <<"t","i","m","e","o","u","t">>,
   network |-> <<"n","e","t","w","o","r","k">>,
   connection |-> <<"c","o","n","n","e","c","t","i","o","n">>,
   disk |-> <<"d","i","s","k">>,
   space |-> <<"s","p","a","c","e">>,
   enospc |-> <<"e","n","o","s","p","c">>,
   codec |-> <<"c","o","d","e","c">>,
   encoder |-> <<"e","n","c","o","d","e","r">>,
   decoder |-> <<"d","e","c","o","d","e","r">>,
   corrupt |-> <<"c","o","r","r","u","p","t">>,
   invalid |-> <<"i","n","v","a","l","i","d">>,
   damaged |-> <<"d","a","m","a","g","e","d">>,
   api_key |-> <<"a","p","i"," ","k","e","y">>,
   authentication |-> <<"a","u","t","h","e","n","t","i","c","a","t","i","o","n">>,
   token |-> <<"t","o","k","e","n">>,
   length |-> <<"l","e","n","g","t","h">>,
   too_long |-> <<"t","o","o"," ","l","o","n","g">>,
   service |-> <<"s","e","r","v","i","c","e">>,
   rate_limit |-> <<"r","a","t","e"," ","l","i","m","i","t">>,
   temporary |-> <<"t","e","m","p","o","r","a","r","y">>]

\* Fixed messages of the classified errors.
MSG ==
  [Video_not_found_or_has_been_deleted |-> <<"V","i","d","e","o"," ","n","o","t"," ","f","o","u","n","d"," ","o","r"," ","h","a","s"," ","b","e","e","n"," ","d","e","l","e","t","e","d">>,
   Video_is_private_or_unavailable |-> <<"V","i","d","e","o"," ","i","s"," ","p","r","i","v","a","t","e"," ","o","r"," ","u","n","a","v","a","i","l","a","b","l","e">>,
   Video_is_age_restricted |-> <<"V","i","d","e","o"," ","i","s"," ","a","g","e","-","r","e","s","t","r","i","c","t","e","d">>,
   Video_is_not_available_in_your_region |-> <<"V","i","d","e","o"," ","i","s"," ","n","o","t"," ","a","v","a","i","l","a","b","l","e"," ","i","n"," ","y","o","u","r"," ","r","e","g","i","o","n">>,
   Rate_limit_exceeded |-> <<"R","a","t","e"," ","l","i","m","i","t"," ","e","x","c","e","e","d","e","d">>,
   Operation_timed_out |-> <<"O","p","e","r","a","t","i","o","n"," ","t","i","m","e","d"," ","o","u","t">>,
   Network_connection_failed |-> <<"N","e","t","w","o","r","k"," ","c","o","n","n","e","c","t","i","o","n"," ","f","a","i","l","e","d">>,
   Insufficient_disk_space |-> <<"I","n","s","u","f","f","i","c","i","e","n","t"," ","d","i","s","k"," ","s","p","a","c","e">>,
   Download_failed |-> <<"D","o","w","n","l","o","a","d"," ","f","a","i","l","e","d">>,
   Codec_error_during_media_processing |-> <<"C","o","d","e","c"," ","e","r","r","o","r"," ","d","u","r","i","n","g"," ","m","e","d","i","a"," ","p","r","o","c","e","s","s","i","n","g">>,
   Media_file_is_corrupted_or_invalid |-> <<"M","e","d","i","a"," ","f","i","l","e"," ","i","s"," ","c","o","r","r","u","p","t","e","d"," ","o","r"," ","i","n","v","a","l","i","d">>,
   Media_processing_failed |-> <<"M","e","d","i","a"," ","p","r","o","c","e","s","s","i","n","g"," ","f","a","i","l","e","d">>,
   Invalid_or_missing_AI_API_key |-> <<"I","n","v","a","l","i","d"," ","o","r"," ","m","i","s","s","i","n","g"," ","A","I"," ","A","P","I"," ","k","e","y">>,
   AI_service_rate_limit_exceeded |-> <<"A","I"," ","s","e","r","v","i","c","e"," ","r","a","t","e"," ","l","i","m","i","t"," ","e","x","c","e","e","d","e","d">>,
   Content_exceeds_AI_token_limit |-> <<"C","o","n","t","e","n","t"," ","e","x","c","e","e","d","s"," ","A","I"," ","t","o","k","e","n"," ","l","i","m","i","t">>,
   AI_service_is_temporarily_unavailable |-> <<"A","I"," ","s","e","r","v","i","c","e"," ","i","s"," ","t","e","m","p","o","r","a","r","i","l","y"," ","u","n","a","v","a","i","l","a","b","l","e">>]

\* Fragments of raw failure messages, in their original letter case.
FRAG ==
  [Video_not_found |-> <<"V","i","d","e","o"," ","n","o","t"," ","f","o","u","n","d">>,
   Private_video |-> <<"P","r","i","v","a","t","e"," ","v","i","d","e","o">>,
   unavailable |-> <<"u","n","a","v","a","i","l","a","b","l","e">>,
   message |-> <<"m","e","s","s","a","g","e">>,
   restricted |-> <<"r","e","s","t","r","i","c","t","e","d">>,
   geo_blocked_country |-> <<"g","e","o","-","b","l","o","c","k","e","d"," ","c","o","u","n","t","r","y">>,
   Rate_limit |-> <<"R","a","t","e"," ","l","i","m","i","t">>,
   quota |-> <<"q","u","o","t","a">>,
   API_key |-> <<"A","P","I"," ","k","e","y">>,
   Authentication |-> <<"A","u","t","h","e","n","t","i","c","a","t","i","o","n">>,
   token_length |-> <<"t","o","k","e","n"," ","l","e","n","g","t","h">>,
   service |-> <<"s","e","r","v","i","c","e">>,
   Timeout |-> <<"T","i","m","e","o","u","t">>,
   network_connection |-> <<"n","e","t","w","o","r","k"," ","c","o","n","n","e","c","t","i","o","n">>,
   ENOSPC_no_disk_space |-> <<"E","N","O","S","P","C",":"," ","n","o"," ","d","i","s","k"," ","s","p","a","c","e">>,
   codec |-> <<"c","o","d","e","c">>,
   corrupt |-> <<"c","o","r","r","u","p","t">>,
   Invalid_data |-> <<"I","n","v","a","l","i","d"," ","d","a","t","a">>,
   Boom |-> <<"B","o","o","m","!">>,
   temporary_failure |-> <<"t","e","m","p","o","r","a","r","y"," ","f","a","i","l","u","r","e">>]
RawFragments ==
  {FRAG.Video_not_found, FRAG.Private_video, FRAG.unavailable,
   FRAG.message, FRAG.restricted, FRAG.geo_blocked_country, FRAG.Rate_limit,
   FRAG.quota, FRAG.API_key, FRAG.Authentication, FRAG.token_length,
   FRAG.service, FRAG.Timeout, FRAG.network_connection,
   FRAG.ENOSPC_no_disk_space, FRAG.codec, FRAG.corrupt,
   FRAG.Invalid_data, FRAG.Boom, FRAG.temporary_failure}

\* Bound: a raw failure message is built from at most MaxFrags fragments.
MaxFrags == 2

\* One character of String.prototype.toLowerCase.
LowerChar(c) ==
  CASE c = "A" -> "a" [] c = "B" -> "b" [] c = "C" -> "c" [] c = "D" -> "d"
    [] c = "E" -> "e" [] c = "F" -> "f" [] c = "G" -> "g" [] c = "H" -> "h"
    [] c = "I" -> "i" [] c = "J" -> "j" [] c = "K" -> "k" [] c = "L" -> "l"
    [] c = "M" -> "m" [] c = "N" -> "n" [] c = "O" -> "o" [] c = "P" -> "p"
    [] c = "Q" -> "q" [] c = "R" -> "r" [] c = "S" -> "s" [] c = "T" -> "t"
    [] c = "U" -> "u" [] c = "V" -> "v" [] c = "W" -> "w" [] c = "X" -> "x"
    [] c = "Y" -> "y" [] c = "Z" -> "z" [] OTHER -> c

\* error.message.toLowerCase()
ToLowerCase(s) == [i \in 1..Len(s) |-> LowerChar(s[i])]

\* message.includes(t): t occurs in s as a contiguous substring.
Includes(s, t) ==
  \E i \in 1..(Len(s) - Len(t) + 1) : \A j \in 1..Len(t) : s[i + j - 1] = t[j]

\* The messages of raw failures: up to MaxFrags fragments joined by a blank.
RECURSIVE MessagesOf(_)
MessagesOf(n) ==
  IF n = 0 THEN {<<>>}
  ELSE LET shorter == MessagesOf(n - 1) IN
       shorter \cup {IF m = <<>> THEN f ELSE m \o <<" ">> \o f :
                       m \in shorter, f \in RawFragments}

RawMessages == MessagesOf(MaxFrags)

(***************************************************************************)
(* Error taxonomy and classifier (src/utils/errors.ts)                     *)
(***************************************************************************)

\* enum ErrorCode
ErrorCode ==
  {"INVALID_URL", "INVALID_TIMESTAMP", "INVALID_FORMAT", "INVALID_QUALITY",
   "INVALID_PATH", "INVALID_RANGE",
   "VIDEO_NOT_FOUND", "VIDEO_UNAVAILABLE", "PRIVATE_VIDEO", "AGE_RESTRICTED",
   "GEO_BLOCKED", "RATE_LIMITED", "PLAYLIST_NOT_FOUND", "CHANNEL_NOT_FOUND",
   "NETWORK_ERROR", "DOWNLOAD_FAILED", "TIMEOUT", "DISK_SPACE",
   "INCOMPLETE_DOWNLOAD",
   "FFMPEG_ERROR", "CODEC_ERROR", "CORRUPTED_FILE", "INSUFFICIENT_RESOURCES",
   "AI_API_KEY_INVALID", "AI_RATE_LIMITED", "AI_SERVICE_UNAVAILABLE",
   "AI_TOKEN_LIMIT",
   "PLAYER_NOT_FOUND", "PLAYER_LAUNCH_FAILED", "STREAM_UNAVAILABLE",
   "NO_ACTIVE_PLAYBACK",
   "UNKNOWN_ERROR", "OPERATION_CANCELLED", "DOWNLOAD_ERROR"}

\* new Error(message)
NewError(message) == [kind |-> "Error", message |-> message]

\* Variant of the constructor that does not keep the suggestions.
YTNinjaError_noSuggestions(code, message, details, suggestions) ==
  [kind |-> "YTNinjaError", code |-> code, message |-> message,
   details |-> details, suggestions |-> <<>>]

\* new YTNinjaError(code, message, details, suggestions); an omitted
\* suggestions argument (undefined) is the empty sequence.
YTNinjaError(code, message, details, suggestions) ==
  [kind |-> "YTNinjaError", code |-> code, message |-> message,
   details |-> details, suggestions |-> suggestions]

\* The raw failures handed to a classifier: Error objects.
RawFailures == {NewError(m) : m \in RawMessages}

\* Variant of classifyYouTubeError whose fallthrough returns the lowercased message.
classifyYouTubeError_lowercased(error) ==
  LET message == ToLowerCase(error.message) IN
  IF Includes(message, KW.not_found) \/ Includes(message, KW.does_not_exist)
  THEN YTNinjaError("VIDEO_NOT_FOUND", MSG.Video_not_found_or_has_been_deleted, error,
         <<"Check if the video URL is correct",
           "The video may have been removed by the uploader">>)
  ELSE IF Includes(message, KW.private) \/ Includes(message, KW.unavailable)
  THEN YTNinjaError("VIDEO_UNAVAILABLE", MSG.Video_is_private_or_unavailable, error,
         <<"This video is private or restricted", "Try a different video">>)
  ELSE IF Includes(message, KW.age) \/ Includes(message, KW.restricted)
  THEN YTNinjaError("AGE_RESTRICTED", MSG.Video_is_age_restricted, error,
         <<"This video requires age verification",
           "Authentication may be required">>)
  ELSE IF Includes(message, KW.geo) \/ Includes(message, KW.region)
          \/ Includes(message, KW.country)
  THEN YTNinjaError("GEO_BLOCKED", MSG.Video_is_not_available_in_your_region, error,
         <<"This video is geo-blocked in your location">>)
  ELSE IF Includes(message, KW.rate) \/ Includes(message, KW.quota)
          \/ Includes(message, KW.limit)
  THEN YTNinjaError("RATE_LIMITED", MSG.Rate_limit_exceeded, error,
         <<"Too many requests", "Please wait a few minutes and try again">>)
  ELSE YTNinjaError("UNKNOWN_ERROR", message, error, <<>>)

\* ErrorClassifier.classifyYouTubeError
classifyYouTubeError(error) ==
  LET message == ToLowerCase(error.message) IN
  IF Includes(message, KW.not_found) \/ Includes(message, KW.does_not_exist)
  THEN YTNinjaError("VIDEO_NOT_FOUND", MSG.Video_not_found_or_has_been_deleted, error,
         <<"Check if the video URL is correct",
           "The video may have been removed by the uploader">>)
  ELSE IF Includes(message, KW.private) \/ Includes(message, KW.unavailable)
  THEN YTNinjaError("VIDEO_UNAVAILABLE", MSG.Video_is_private_or_unavailable, error,
         <<"This video is private or restricted", "Try a different video">>)
  ELSE IF Includes(message, KW.age) \/ Includes(message, KW.restricted)
  THEN YTNinjaError("AGE_RESTRICTED", MSG.Video_is_age_restricted, error,
         <<"This video requires age verification",
           "Authentication may be required">>)
  ELSE IF Includes(message, KW.geo) \/ Includes(message, KW.region)
          \/ Includes(message, KW.country)
  THEN YTNinjaError("GEO_BLOCKED", MSG.Video_is_not_available_in_your_region, error,
         <<"This video is geo-blocked in your location">>)
  ELSE IF Includes(message, KW.rate) \/ Includes(message, KW.quota)
          \/ Includes(message, KW.limit)
  THEN YTNinjaError("RATE_LIMITED", MSG.Rate_limit_exceeded, error,
         <<"Too many requests", "Please wait a few minutes and try again">>)
  ELSE YTNinjaError("UNKNOWN_ERROR", error.message, error, <<>>)

\* ErrorClassifier.classifyNetworkError
classifyNetworkError(error) ==
  LET message == ToLowerCase(error.message) IN
  IF Includes(message, KW.timeout)
  THEN YTNinjaError("TIMEOUT", MSG.Operation_timed_out, error,
         <<"Check your internet connection", "Try again later">>)
  ELSE IF Includes(message, KW.network) \/ Includes(message, KW.connection)
  THEN YTNinjaError("NETWORK_ERROR", MSG.Network_connection_failed, error,
         <<"Check your internet connection", "Verify network settings">>)
  ELSE IF Includes(message, KW.disk) \/ Includes(message, KW.space)
          \/ Includes(message, KW.enospc)
  THEN YTNinjaError("DISK_SPACE", MSG.Insufficient_disk_space, error,
         <<"Free up disk space", "Choose a different download location">>)
  ELSE YTNinjaError("DOWNLOAD_FAILED", MSG.Download_failed, error,
         <<"Try again", "Check your internet connection">>)

\* Variant of classifyFFmpegError without its fallthrough return.
classifyFFmpegError_noDefault(error) ==
  LET message == ToLowerCase(error.message) IN
  IF Includes(message, KW.codec) \/ Includes(message, KW.encoder)
     \/ Includes(message, KW.decoder)
  THEN YTNinjaError("CODEC_ERROR", MSG.Codec_error_during_media_processing, error,
         <<"Try a different output format",
           "The requested codec may not be supported",
           "Supported formats: mp4, webm, mkv for video; mp3, wav, flac for audio">>)
  ELSE IF Includes(message, KW.corrupt) \/ Includes(message, KW.invalid)
          \/ Includes(message, KW.damaged)
  THEN YTNinjaError("CORRUPTED_FILE", MSG.Media_file_is_corrupted_or_invalid, error,
         <<"Try downloading the file again", "The source file may be damaged">>)
  ELSE [kind |-> "undefined"]

\* ErrorClassifier.classifyFFmpegError
classifyFFmpegError(error) ==
  LET message == ToLowerCase(error.message) IN
  IF Includes(message, KW.codec) \/ Includes(message, KW.encoder)
     \/ Includes(message, KW.decoder)
  THEN YTNinjaError("CODEC_ERROR", MSG.Codec_error_during_media_processing, error,
         <<"Try a different output format",
           "The requested codec may not be supported",
           "Supported formats: mp4, webm, mkv for video; mp3, wav, flac for audio">>)
  ELSE IF Includes(message, KW.corrupt) \/ Includes(message, KW.invalid)
          \/ Includes(message, KW.damaged)
  THEN YTNinjaError("CORRUPTED_FILE", MSG.Media_file_is_corrupted_or_invalid, error,
         <<"Try downloading the file again", "The source file may be damaged">>)
  ELSE YTNinjaError("FFMPEG_ERROR", MSG.Media_processing_failed, error,
         <<"Try again", "Check if FFmpeg is properly installed">>)

\* Variant of classifyAIError that tests the rate rule before the auth rule.
classifyAIError_rateFirst(error) ==
  LET message == ToLowerCase(error.message) IN
  IF Includes(message, KW.rate) \/ Includes(message, KW.quota)
     \/ Includes(message, KW.limit)
  THEN YTNinjaError("AI_RATE_LIMITED", MSG.AI_service_rate_limit_exceeded, error,
         <<"Wait a few minutes before trying again",
           "Consider upgrading your API plan">>)
  ELSE IF Includes(message, KW.api_key) \/ Includes(message, KW.authentication)
  THEN YTNinjaError("AI_API_KEY_INVALID", MSG.Invalid_or_missing_AI_API_key, error,
         <<"Check your GEMINI_API_KEY environment variable",
           "Verify the API key is correct">>)
  ELSE IF Includes(message, KW.token) \/ Includes(message, KW.length)
          \/ Includes(message, KW.too_long)
  THEN YTNinjaError("AI_TOKEN_LIMIT", MSG.Content_exceeds_AI_token_limit, error,
         <<"Try with a shorter video",
           "The transcript may be too long for processing">>)
  ELSE IF Includes(message, KW.unavailable) \/ Includes(message, KW.service)
  THEN YTNinjaError("AI_SERVICE_UNAVAILABLE", MSG.AI_service_is_temporarily_unavailable, error,
         <<"Try again later", "The AI service may be experiencing issues">>)
  ELSE YTNinjaError("UNKNOWN_ERROR", error.message, error, <<>>)

\* ErrorClassifier.classifyAIError
classifyAIError(error) ==
  LET message == ToLowerCase(error.message) IN
  IF Includes(message, KW.api_key) \/ Includes(message, KW.authentication)
  THEN YTNinjaError("AI_API_KEY_INVALID", MSG.Invalid_or_missing_AI_API_key, error,
         <<"Check your GEMINI_API_KEY environment variable",
           "Verify the API key is correct">>)
  ELSE IF Includes(message, KW.rate) \/ Includes(message, KW.quota)
          \/ Includes(message, KW.limit)
  THEN YTNinjaError("AI_RATE_LIMITED", MSG.AI_service_rate_limit_exceeded, error,
         <<"Wait a few minutes before trying again",
           "Consider upgrading your API plan">>)
  ELSE IF Includes(message, KW.token) \/ Includes(message, KW.length)
          \/ Includes(message, KW.too_long)
  THEN YTNinjaError("AI_TOKEN_LIMIT", MSG.Content_exceeds_AI_token_limit, error,
         <<"Try with a shorter video",
           "The transcript may be too long for processing">>)
  ELSE IF Includes(message, KW.unavailable) \/ Includes(message, KW.service)
  THEN YTNinjaError("AI_SERVICE_UNAVAILABLE", MSG.AI_service_is_temporarily_unavailable, error,
         <<"Try again later", "The AI service may be experiencing issues">>)
  ELSE YTNinjaError("UNKNOWN_ERROR", error.message, error, <<>>)

\* The four upstream surfaces and the classifier of each.
Surfaces == {"remote-metadata", "network", "media-processing", "ai-generation"}

\* classify(surface, rawFailure): dispatch to the surface's classifier.
Classify(s, error) ==
  CASE s = "remote-metadata"  -> classifyYouTubeError(error)
    [] s = "network"          -> classifyNetworkError(error)
    [] s = "media-processing" -> classifyFFmpegError(error)
    [] s = "ai-generation"    -> classifyAIError(error)

(***************************************************************************)
(* Retry executor (RetryHandler, src/utils/errors.ts)                      *)
(***************************************************************************)

\* Defaults of the options destructuring in withRetry.
DefaultMaxAttempts == 3
DefaultInitialDelay == 1000
DefaultMaxDelay == 8000

\* Bound: the largest maxAttempts a call site passes explicitly.
MaxAttemptsBound == 4

\* The value of an uninitialised binding (let lastError: Error;).
Undefined == [kind |-> "undefined"]

\* error instanceof Error (YTNinjaError extends Error)
InstanceOfError(e) == e.kind \in {"Error", "YTNinjaError"}

\* String(error) of a thrown value that is not an Error: thrown strings.
StringOf(e) == e.text

Min(a, b) == IF a <= b THEN a ELSE b

Max(a, b) == IF a >= b THEN a ELSE b

RECURSIVE Pow2(_)
Pow2(n) == IF n <= 0 THEN 1 ELSE 2 * Pow2(n - 1)

\* Variant of retryableCodes without the download-origin codes.
retryableCodes_noDownload ==
  {"NETWORK_ERROR", "TIMEOUT", "RATE_LIMITED", "AI_RATE_LIMITED"}

\* retryableCodes of isRetryableError
retryableCodes ==
  {"NETWORK_ERROR", "TIMEOUT", "RATE_LIMITED", "AI_RATE_LIMITED",
   "DOWNLOAD_FAILED", "INCOMPLETE_DOWNLOAD"}

\* RetryHandler.isRetryableError
isRetryableError(error) ==
  IF error.kind = "YTNinjaError"
  THEN error.code \in retryableCodes
  ELSE LET message == ToLowerCase(error.message) IN
         \/ Includes(message, KW.timeout)
         \/ Includes(message, KW.network)
         \/ Includes(message, KW.rate_limit)
         \/ Includes(message, KW.temporary)

\* The retry predicates a call site can pass: the parameter default
\* (() => true) or RetryHandler.isRetryableError.
Predicates == {"always", "isRetryableError"}

\* shouldRetry(lastError) for the predicate named p.
ShouldRetry(p, error) ==
  IF p = "isRetryableError" THEN isRetryableError(error) ELSE TRUE

\* options.f with its destructuring default d.
Option(options, f, d) == IF f \in DOMAIN options THEN options[f] ELSE d

\* Variant of Delay without the cap at maxDelay.
Delay_uncapped(initialDelay, maxDelay, attempt) ==
  initialDelay * Pow2(attempt - 1)

\* const delay = Math.min(initialDelay * Math.pow(2, attempt - 1), maxDelay)
Delay(initialDelay, maxDelay, attempt) ==
  Min(initialDelay * Pow2(attempt - 1), maxDelay)

\* (initialDelay, maxDelay) pairs passed explicitly; the first one makes the
\* cap take effect at the second delay.
DelayPairs == {<<1000, 1500>>, <<500, 8000>>}

\* The options objects of the call sites: none ({}), the one every client
\* of this repository passes, and fully explicit ones.
OptionSets ==
  {<<>>, [shouldRetry |-> "isRetryableError"]}
  \cup {[maxAttempts |-> n, initialDelay |-> d[1], maxDelay |-> d[2],
         shouldRetry |-> p] :
          n \in 0..MaxAttemptsBound, d \in DelayPairs, p \in Predicates}

\* What a wrapped operation can throw: classified errors (retryable or not),
\* plain Errors (retryable by message or not) and a value that is no Error.
ThrownValues ==
  {classifyAIError(NewError(FRAG.Rate_limit)),
   classifyAIError(NewError(FRAG.API_key)),
   NewError(FRAG.Timeout),
   NewError(FRAG.Boom),
   [kind |-> "string", text |-> FRAG.network_connection]}

\* What a wrapped operation can resolve with.
ResolvedValues == {[kind |-> "value", text |-> <<"o", "k">>]}

(***************************************************************************)
(* JavaScript values and text helpers used by the extractors               *)
(***************************************************************************)

\* A JavaScript number with two decimals: c is the value in hundredths
\* (0.95 is Num(95), 30 is Num(3000)).
Num(c) == [nan |-> FALSE, c |-> c]

\* The number NaN.
NaN == [nan |-> TRUE, c |-> 0]

\* isNaN(x)
isNaN(x) == x.nan

\* a >= b, a <= b, a > b on numbers: false when an operand is NaN.
Geq(a, b) == ~a.nan /\ ~b.nan /\ a.c >= b.c
Leq(a, b) == ~a.nan /\ ~b.nan /\ a.c <= b.c
Gt(a, b) == ~a.nan /\ ~b.nan /\ a.c > b.c

Digits == <<"0", "1", "2", "3", "4", "5", "6", "7", "8", "9">>

IsDigit(ch) == \E d \in 1..10 : Digits[d] = ch

DigitValue(ch) == (CHOOSE d \in 1..10 : Digits[d] = ch) - 1

\* The number of digits at the start of s.
RECURSIVE LeadingDigits(_)
LeadingDigits(s) ==
  IF s = <<>> \/ ~IsDigit(Head(s)) THEN 0 ELSE 1 + LeadingDigits(Tail(s))

\* The value of a sequence of digits (0 for the empty one).
RECURSIVE DecimalValue(_)
DecimalValue(ds) ==
  IF ds = <<>> THEN 0
  ELSE 10 * DecimalValue(SubSeq(ds, 1, Len(ds) - 1)) + DigitValue(ds[Len(ds)])

\* parseInt(s, 10) of a capture without sign or leading blanks: the leading
\* digits, NaN when there is none.
parseInt(s) ==
  LET n == LeadingDigits(s) IN
  IF n = 0 THEN NaN ELSE Num(100 * DecimalValue(SubSeq(s, 1, n)))

\* parseFloat(s) of a capture of digits and dots: the longest prefix
\* digits [. digits] holding a digit, NaN when there is none; decimals after
\* the second one are dropped.
parseFloat(s) ==
  LET ip == LeadingDigits(s)
      rest == SubSeq(s, ip + 1, Len(s))
      hasDot == rest # <<>> /\ Head(rest) = "."
      fp == IF hasDot THEN LeadingDigits(Tail(rest)) ELSE 0
      frac == IF hasDot THEN SubSeq(Tail(rest), 1, Min(fp, 2)) ELSE <<>>
      hundredths == IF Len(frac) = 1 THEN 10 * DecimalValue(frac)
                    ELSE DecimalValue(frac)
  IN IF ip + fp = 0 THEN NaN
     ELSE Num(100 * DecimalValue(SubSeq(s, 1, ip)) + hundredths)

\* Math.floor(x) of a non-negative number.
Floor(x) == IF x.nan THEN NaN ELSE Num(100 * (x.c \div 100))

IsSpace(ch) == ch \in {" ", "\n", "\t"}

RECURSIVE TrimStart(_)
TrimStart(s) == IF s # <<>> /\ IsSpace(Head(s)) THEN TrimStart(Tail(s)) ELSE s

RECURSIVE TrimEnd(_)
TrimEnd(s) ==
  IF s # <<>> /\ IsSpace(s[Len(s)]) THEN TrimEnd(SubSeq(s, 1, Len(s) - 1)) ELSE s

\* String.prototype.trim
Trim(s) == TrimEnd(TrimStart(s))

\* array.slice(0, n) for n >= 0
Slice(s, n) == SubSeq(s, 1, Min(n, Len(s)))

\* [f(x) for x in s if p(x)], in order: array.filter(p).map(f) and the
\* "if (valid) push" loops.
FilterMap(s, p(_), f(_)) ==
  LET idx == {i \in 1..Len(s) : p(s[i])}
      nth(k) == CHOOSE i \in idx : Cardinality({j \in idx : j < i}) = k - 1
  IN [k \in 1..Cardinality(idx) |-> f(s[nth(k)])]

\* x inserted into t in front of the first element it must precede
\* (before(a, b): the comparator puts a before b), at the end otherwise.
InsertSorted(t, x, before(_, _)) ==
  LET later == {i \in 1..Len(t) : before(x, t[i])}
      pos == IF later = {} THEN Len(t) + 1
             ELSE CHOOSE i \in later : \A j \in later : i <= j
  IN SubSeq(t, 1, pos - 1) \o <<x>> \o SubSeq(t, pos, Len(t))

\* Array.prototype.sort with a comparator: a stable sort, elements the
\* comparator does not order keep their first-seen order.
StableSort(s, before(_, _)) ==
  LET sorted[n \in 0..Len(s)] ==
        IF n = 0 THEN <<>> ELSE InsertSorted(sorted[n - 1], s[n], before)
  IN sorted[Len(s)]

(***************************************************************************)
(* Structured-text extractors (GenAIClient, AIAnalyzer.generateHighlights) *)
(*                                                                         *)
(* A generated text is represented by what the extractor's regular         *)
(* expressions find in it: per pattern, the sequence of its matches with   *)
(* the captured groups as text.                                            *)
(***************************************************************************)

\* n.toString() of a non-negative integer.
RECURSIVE NumToString(_)
NumToString(n) ==
  IF n < 10 THEN <<Digits[n + 1]>>
  ELSE NumToString(n \div 10) \o <<Digits[(n % 10) + 1]>>

\* n.toString().padStart(2, '0')
PadStart2(n) == IF n < 10 THEN <<"0">> \o NumToString(n) ELSE NumToString(n)

\* AIAnalyzer.formatTimestamp: HH:MM:SS, or MM:SS below one hour.
AIAnalyzer_formatTimestamp(seconds) ==
  LET sec == seconds.c \div 100
      hours == sec \div 3600
      minutes == (sec % 3600) \div 60
      secs == sec % 60
  IN IF hours > 0
     THEN PadStart2(hours) \o <<":">> \o PadStart2(minutes) \o <<":">> \o PadStart2(secs)
     ELSE PadStart2(minutes) \o <<":">> \o PadStart2(secs)

\* Variant of parseHighlights that does not compare the start with the duration
\* of the video.
parseHighlights_noRange(response, videoDuration, count) ==
  LET first == response.p1
      second == IF Len(first) = 0 THEN response.p2 ELSE first
      highlightMatches == IF Len(second) = 0 THEN response.p3 ELSE second
      valid(m) ==
        LET startSeconds == parseInt(m.ts)
            durationSeconds == parseInt(m.dur)
            score == parseFloat(m.score)
        IN /\ ~isNaN(startSeconds)
           /\ ~isNaN(durationSeconds)
           /\ ~isNaN(score)
           /\ Geq(startSeconds, Num(0))
           /\ Gt(durationSeconds, Num(0))
           /\ Geq(score, Num(0))
           /\ Leq(score, Num(100))
      highlight(m) ==
        [timestamp |-> AIAnalyzer_formatTimestamp(parseInt(m.ts)),
         duration |-> AIAnalyzer_formatTimestamp(parseInt(m.dur)),
         description |-> Trim(m.desc),
         reason |-> Trim(m.reason),
         score |-> parseFloat(m.score)]
      highlights == FilterMap(highlightMatches, valid, highlight)
  IN IF Len(highlights) = 0 THEN <<>>
     ELSE Slice(StableSort(highlights, LAMBDA a, b : Gt(a.score, b.score)), count)

\* Variant of parseHighlights that cuts to count before ranking.
parseHighlights_sliceFirst(response, videoDuration, count) ==
  LET first == response.p1
      second == IF Len(first) = 0 THEN response.p2 ELSE first
      highlightMatches == IF Len(second) = 0 THEN response.p3 ELSE second
      valid(m) ==
        LET startSeconds == parseInt(m.ts)
            durationSeconds == parseInt(m.dur)
            score == parseFloat(m.score)
        IN /\ ~isNaN(startSeconds)
           /\ ~isNaN(durationSeconds)
           /\ ~isNaN(score)
           /\ Geq(startSeconds, Num(0))
           /\ Leq(startSeconds, videoDuration)
           /\ Gt(durationSeconds, Num(0))
           /\ Geq(score, Num(0))
           /\ Leq(score, Num(100))
      highlight(m) ==
        [timestamp |-> AIAnalyzer_formatTimestamp(parseInt(m.ts)),
         duration |-> AIAnalyzer_formatTimestamp(parseInt(m.dur)),
         description |-> Trim(m.desc),
         reason |-> Trim(m.reason),
         score |-> parseFloat(m.score)]
      highlights == FilterMap(highlightMatches, valid, highlight)
  IN IF Len(highlights) = 0 THEN <<>>
     ELSE StableSort(Slice(highlights, count), LAMBDA a, b : Gt(a.score, b.score))

\* Variant of parseHighlights that goes on to the next pattern when no match
\* of a pattern is valid.
parseHighlights_untilValid(response, videoDuration, count) ==
  LET valid(m) ==
        LET startSeconds == parseInt(m.ts)
            durationSeconds == parseInt(m.dur)
            score == parseFloat(m.score)
        IN /\ ~isNaN(startSeconds)
           /\ ~isNaN(durationSeconds)
           /\ ~isNaN(score)
           /\ Geq(startSeconds, Num(0))
           /\ Leq(startSeconds, videoDuration)
           /\ Gt(durationSeconds, Num(0))
           /\ Geq(score, Num(0))
           /\ Leq(score, Num(100))
      highlight(m) ==
        [timestamp |-> AIAnalyzer_formatTimestamp(parseInt(m.ts)),
         duration |-> AIAnalyzer_formatTimestamp(parseInt(m.dur)),
         description |-> Trim(m.desc),
         reason |-> Trim(m.reason),
         score |-> parseFloat(m.score)]
      accepted(ms) == FilterMap(ms, valid, highlight)
      highlights == IF Len(accepted(response.p1)) > 0 THEN accepted(response.p1)
                    ELSE IF Len(accepted(response.p2)) > 0 THEN accepted(response.p2)
                    ELSE accepted(response.p3)
  IN IF Len(highlights) = 0 THEN <<>>
     ELSE Slice(StableSort(highlights, LAMBDA a, b : Gt(a.score, b.score)), count)

\* AIAnalyzer.generateHighlights, from the response on: the matches of the
\* first of the three patterns that has any, validated, ranked by score and
\* cut to count.
parseHighlights(response, videoDuration, count) ==
  LET first == response.p1
      second == IF Len(first) = 0 THEN response.p2 ELSE first
      highlightMatches == IF Len(second) = 0 THEN response.p3 ELSE second
      valid(m) ==
        LET startSeconds == parseInt(m.ts)
            durationSeconds == parseInt(m.dur)
            score == parseFloat(m.score)
        IN /\ ~isNaN(startSeconds)
           /\ ~isNaN(durationSeconds)
           /\ ~isNaN(score)
           /\ Geq(startSeconds, Num(0))
           /\ Leq(startSeconds, videoDuration)
           /\ Gt(durationSeconds, Num(0))
           /\ Geq(score, Num(0))
           /\ Leq(score, Num(100))
      highlight(m) ==
        [timestamp |-> AIAnalyzer_formatTimestamp(parseInt(m.ts)),
         duration |-> AIAnalyzer_formatTimestamp(parseInt(m.dur)),
         description |-> Trim(m.desc),
         reason |-> Trim(m.reason),
         score |-> parseFloat(m.score)]
      highlights == FilterMap(highlightMatches, valid, highlight)
  IN IF Len(highlights) = 0 THEN <<>>
     ELSE Slice(StableSort(highlights, LAMBDA a, b : Gt(a.score, b.score)), count)

\* GenAIClient.detectTopics, from the response on: every match of the TOPIC
\* pattern becomes a topic, sorted by confidence.  (A NaN confidence makes
\* the comparator return NaN, which sort takes as "equal".)
parseTopics(response) ==
  LET topic(m) == [topic |-> Trim(m.topic),
                   confidence |-> parseFloat(m.conf),
                   category |-> Trim(m.category)]
      topics == FilterMap(response.topicMatches, LAMBDA m : TRUE, topic)
  IN StableSort(topics, LAMBDA a, b : Gt(a.confidence, b.confidence))

\* A value inside the parsed JSON: a string, a number or a missing property.
JsString(s) == [t |-> "string", s |-> s]
JsNumber(c) == [t |-> "number", n |-> Num(c)]
JsUndefined == [t |-> "undefined"]

\* Truthiness of a value (item.keyword && ...).
Truthy(v) ==
  CASE v.t = "string" -> v.s # <<>>
    [] v.t = "number" -> ~v.n.nan /\ v.n.c # 0
    [] OTHER -> FALSE

\* Variant of jsonTier that drops an entry whose numbers are out of range.
jsonTier_discard(response, count) ==
  LET json == response.json IN
  IF json.state # "array" \/ Len(json.items) = 0
  THEN [outcome |-> "fallthrough", keywords |-> <<>>]
  ELSE LET items == json.items
           throws ==
             \/ \E i \in 1..Len(items) : items[i].t = "null"
             \/ \E i \in 1..Len(items) :
                  /\ items[i].t = "object"
                  /\ Truthy(items[i].keyword)
                  /\ items[i].relevance.t = "number"
                  /\ items[i].frequency.t = "number"
                  /\ items[i].keyword.t # "string"
           wellTyped(item) ==
             /\ item.t = "object"
             /\ Truthy(item.keyword)
             /\ item.relevance.t = "number"
             /\ item.frequency.t = "number"
             /\ item.relevance.n.c >= 0
             /\ item.relevance.n.c <= 100
             /\ item.frequency.n.c >= 100
           keyword(item) ==
             [keyword |-> Trim(item.keyword.s),
              relevance |-> Num(Min(100, Max(0, item.relevance.n.c))),
              frequency |-> Num(Max(100, item.frequency.n.c))]
       IN IF throws THEN [outcome |-> "fallthrough", keywords |-> <<>>]
          ELSE LET keywords == FilterMap(items, wellTyped, keyword) IN
               IF Len(keywords) >= Min(3, count)
               THEN [outcome |-> "keywords", keywords |-> Slice(keywords, count)]
               ELSE [outcome |-> "fallthrough", keywords |-> <<>>]

\* Variant of jsonTier that returns whatever entries it has.
jsonTier_anyCount(response, count) ==
  LET json == response.json IN
  IF json.state # "array" \/ Len(json.items) = 0
  THEN [outcome |-> "fallthrough", keywords |-> <<>>]
  ELSE LET items == json.items
           throws ==
             \/ \E i \in 1..Len(items) : items[i].t = "null"
             \/ \E i \in 1..Len(items) :
                  /\ items[i].t = "object"
                  /\ Truthy(items[i].keyword)
                  /\ items[i].relevance.t = "number"
                  /\ items[i].frequency.t = "number"
                  /\ items[i].keyword.t # "string"
           wellTyped(item) ==
             /\ item.t = "object"
             /\ Truthy(item.keyword)
             /\ item.relevance.t = "number"
             /\ item.frequency.t = "number"
           keyword(item) ==
             [keyword |-> Trim(item.keyword.s),
              relevance |-> Num(Min(100, Max(0, item.relevance.n.c))),
              frequency |-> Num(Max(100, item.frequency.n.c))]
       IN IF throws THEN [outcome |-> "fallthrough", keywords |-> <<>>]
          ELSE LET keywords == FilterMap(items, wellTyped, keyword) IN
               IF Len(keywords) >= 1
               THEN [outcome |-> "keywords", keywords |-> Slice(keywords, count)]
               ELSE [outcome |-> "fallthrough", keywords |-> <<>>]

\* The JSON tier of extractKeywords.  The outcome is "keywords" with the
\* list when the tier reaches min(3, count) entries and "fallthrough"
\* otherwise: no [...] in the response, JSON.parse throwing, an empty array,
\* too few well-typed entries, or a TypeError raised on an entry (property
\* access on null, trim on a keyword that is not a string), all caught by
\* the inner try.
jsonTier(response, count) ==
  LET json == response.json IN
  IF json.state # "array" \/ Len(json.items) = 0
  THEN [outcome |-> "fallthrough", keywords |-> <<>>]
  ELSE LET items == json.items
           throws ==
             \/ \E i \in 1..Len(items) : items[i].t = "null"
             \/ \E i \in 1..Len(items) :
                  /\ items[i].t = "object"
                  /\ Truthy(items[i].keyword)
                  /\ items[i].relevance.t = "number"
                  /\ items[i].frequency.t = "number"
                  /\ items[i].keyword.t # "string"
           wellTyped(item) ==
             /\ item.t = "object"
             /\ Truthy(item.keyword)
             /\ item.relevance.t = "number"
             /\ item.frequency.t = "number"
           keyword(item) ==
             [keyword |-> Trim(item.keyword.s),
              relevance |-> Num(Min(100, Max(0, item.relevance.n.c))),
              frequency |-> Num(Max(100, item.frequency.n.c))]
       IN IF throws THEN [outcome |-> "fallthrough", keywords |-> <<>>]
          ELSE LET keywords == FilterMap(items, wellTyped, keyword) IN
               IF Len(keywords) >= Min(3, count)
               THEN [outcome |-> "keywords", keywords |-> Slice(keywords, count)]
               ELSE [outcome |-> "fallthrough", keywords |-> <<>>]

\* The regex tier of extractKeywords: the valid matches of the patterns are
\* collected into one list, pattern after pattern; after each pattern the
\* list is returned, ranked by relevance and cut to count, once it holds
\* min(3, count) entries; the empty list when it never does.
regexTier(response, count) ==
  LET valid(m) ==
        LET keyword == Trim(m.kw)
            relevance == parseFloat(m.rel)
            frequency == parseInt(m.freq)
        IN /\ keyword # <<>>
           /\ ~isNaN(relevance)
           /\ ~isNaN(frequency)
           /\ Geq(relevance, Num(0))
           /\ Leq(relevance, Num(100))
      keyword(m) == [keyword |-> Trim(m.kw),
                     relevance |-> parseFloat(m.rel),
                     frequency |-> parseInt(m.freq)]
      ranked(keywords) ==
        Slice(StableSort(keywords, LAMBDA a, b : Gt(a.relevance, b.relevance)), count)
      afterFirst == FilterMap(response.p1, valid, keyword)
      afterSecond == afterFirst \o FilterMap(response.p2, valid, keyword)
  IN IF Len(afterFirst) >= Min(3, count) THEN ranked(afterFirst)
     ELSE IF Len(afterSecond) >= Min(3, count) THEN ranked(afterSecond)
     ELSE <<>>

\* GenAIClient.extractKeywords, from the response on.
parseKeywords(response, count) ==
  LET json == jsonTier(response, count) IN
  IF json.outcome = "keywords" THEN json.keywords ELSE regexTier(response, count)

\* s.split(sep) for a one-character separator: the pieces between the
\* separators, empty pieces included.
Split(s, sep) ==
  LET cuts == {i \in 1..Len(s) : s[i] = sep}
      bounds == {0} \cup cuts \cup {Len(s) + 1}
      nth(k) == CHOOSE i \in bounds : Cardinality({j \in bounds : j < i}) = k - 1
  IN [k \in 1..(Cardinality(cuts) + 1) |-> SubSeq(s, nth(k) + 1, nth(k + 1) - 1)]

\* GenAIClient.formatTimestamp: H:MM:SS, or M:SS below one hour.
formatTimestamp(seconds) ==
  LET sec == seconds.c \div 100
      hours == sec \div 3600
      minutes == (sec % 3600) \div 60
      secs == sec % 60
  IN IF hours > 0
     THEN NumToString(hours) \o <<":">> \o PadStart2(minutes) \o <<":">> \o PadStart2(secs)
     ELSE NumToString(minutes) \o <<":">> \o PadStart2(secs)

\* parts[0] || 0
OrZero(x) == IF x.nan THEN Num(0) ELSE x

\* a * k + b on numbers (k an integer factor); NaN when a or b is NaN.
MulAdd(a, k, b) == IF a.nan \/ b.nan THEN NaN ELSE Num(a.c * k + b.c)

\* Variant of parseTimestamp that reads H:MM:SS as if it were M:SS.
parseTimestamp_noHours(timestamp) ==
  LET pieces == Split(timestamp, ":")
      parts == [i \in 1..Len(pieces) |-> parseInt(pieces[i])]
  IN IF Len(parts) >= 2 THEN MulAdd(parts[1], 60, parts[2])
     ELSE OrZero(parts[1])

\* GenAIClient.parseTimestamp: the seconds of H:MM:SS, M:SS or a bare number.
parseTimestamp(timestamp) ==
  LET pieces == Split(timestamp, ":")
      parts == [i \in 1..Len(pieces) |-> parseInt(pieces[i])]
  IN IF Len(parts) = 3
     THEN MulAdd(parts[1], 3600, MulAdd(parts[2], 60, parts[3]))
     ELSE IF Len(parts) = 2 THEN MulAdd(parts[1], 60, parts[2])
     ELSE OrZero(parts[1])

\* Variant of targetChapters without the lower bound of 5.
targetChapters_unclamped(videoDuration) ==
  Max(1, Min(15, (videoDuration.c \div 100) \div 300))

\* Math.max(5, Math.min(15, Math.floor(videoDuration / 300)))
targetChapters(videoDuration) ==
  Max(5, Min(15, (videoDuration.c \div 100) \div 300))

str_Chapter == <<"C","h","a","p","t","e","r"," ">>
str_Auto_generated_chapter ==
  <<"A","u","t","o","-","g","e","n","e","r","a","t","e","d"," ","c","h","a","p","t","e","r">>

\* a - b < 0 for the ascending comparator of the chapter sort.
Lt(a, b) == ~a.nan /\ ~b.nan /\ a.c < b.c

\* GenAIClient.generateChapters, from the response on: one chapter per match
\* of the CHAPTER pattern, evenly spaced placeholders when there is none,
\* sorted by the seconds parsed back from the formatted timestamp.
parseChapters(response, videoDuration) ==
  LET chapter(m) == [timestamp |-> formatTimestamp(parseInt(m.ts)),
                     title |-> Trim(m.title),
                     description |-> Trim(m.desc)]
      parsed == FilterMap(response.chapterMatches, LAMBDA m : TRUE, chapter)
      target == targetChapters(videoDuration)
      chapterDuration == (videoDuration.c \div 100) \div target
      basic == [k \in 1..target |->
                  [timestamp |-> formatTimestamp(Num(100 * ((k - 1) * chapterDuration))),
                   title |-> str_Chapter \o NumToString(k),
                   description |-> str_Auto_generated_chapter]]
      chapters == IF Len(parsed) = 0 THEN basic ELSE parsed
  IN StableSort(chapters,
       LAMBDA a, b : Lt(parseTimestamp(a.timestamp), parseTimestamp(b.timestamp)))

\* line.replace(/^-\s*/, '')
StripDash(line) ==
  IF line # <<>> /\ Head(line) = "-" THEN TrimStart(Tail(line)) ELSE line

\* summary.split(/\s+/).length
WordCount(s) ==
  1 + Cardinality({i \in 1..Len(s) : IsSpace(s[i]) /\ (i = 1 \/ ~IsSpace(s[i - 1]))})

\* GenAIClient.summarizeVideo, from the response on.
parseSummary(response) ==
  LET summary == IF response.summaryMatch.matched
                 THEN Trim(response.summaryMatch.group) ELSE response.text
      keyPointsText == IF response.keyPointsMatch.matched
                       THEN Trim(response.keyPointsMatch.group) ELSE <<>>
      isBullet(line) == Trim(line) # <<>> /\ Head(Trim(line)) = "-"
      point(line) == Trim(StripDash(line))
      points == FilterMap(Split(keyPointsText, "\n"), isBullet, point)
      keyPoints == FilterMap(points, LAMBDA q : Len(q) > 0, LAMBDA q : q)
  IN [summary |-> summary,
      keyPoints |-> IF Len(keyPoints) > 0 THEN keyPoints ELSE <<summary>>,
      wordCount |-> WordCount(summary)]

(***************************************************************************)
(* Generated texts: the match pools the specifications draw responses from *)
(***************************************************************************)

\* Bounds: the longest list of matches of one pattern, the longest parsed
\* JSON array, the largest count a caller requests.
MaxMatches == 2
MaxItems == 3
MaxCount == 3

\* The sequences over S of length at most n.
RECURSIVE SeqsUpTo(_, _)
SeqsUpTo(S, n) ==
  IF n = 0 THEN {<<>>}
  ELSE LET shorter == SeqsUpTo(S, n - 1) IN
       shorter \cup {Append(q, x) : q \in shorter, x \in S}

\* A match of a HIGHLIGHT pattern: the five captured groups.
HighlightMatch(ts, dur, desc, reason, score) ==
  [ts |-> ts, dur |-> dur, desc |-> desc, reason |-> reason, score |-> score]

\* Matches of a HIGHLIGHT pattern: in range, starting late, of duration 0,
\* with a score above 1, ending after 600 seconds, with a score that is no
\* number, and one tying with the first.
HighlightMatchPool ==
  {HighlightMatch(<<"4","5">>, <<"3","0">>, <<"i","n","t","r","o"," ">>, <<"w","h","y">>, <<"0",".","9">>),
   HighlightMatch(<<"2","0","0">>, <<"3","0">>, <<"l","a","t","e">>, <<"w","h","y">>, <<"0",".","9","5">>),
   HighlightMatch(<<"1","0">>, <<"0">>, <<"e","m","p","t","y">>, <<"w","h","y">>, <<"0",".","7">>),
   HighlightMatch(<<"2","0">>, <<"2","5">>, <<"o","v","e","r">>, <<"w","h","y">>, <<"1",".","5">>),
   HighlightMatch(<<"5","9","0">>, <<"3","0">>, <<"e","n","d">>, <<"w","h","y">>, <<"0",".","4">>),
   HighlightMatch(<<"5">>, <<"1","5">>, <<"d","o","t","s">>, <<"w","h","y">>, <<".">>),
   HighlightMatch(<<"3","0">>, <<"2","0">>, <<"t","i","e">>, <<"w","h","y">>, <<"0",".","9">>)}

\* The responses to the highlight prompt with at most n matches of a
\* pattern: no pattern matches, or pattern k is the first to match (with any
\* list of matches) and every later pattern would match the decoy block.
HighlightDecoy ==
  <<HighlightMatch(<<"6","0">>, <<"1","0">>, <<"d","e","c","o","y">>, <<"w","h","y">>, <<"0",".","9","9">>)>>

HighlightResponses(n) ==
  {[p1 |-> <<>>, p2 |-> <<>>, p3 |-> <<>>]}
  \cup {[p1 |-> ms, p2 |-> HighlightDecoy, p3 |-> HighlightDecoy] :
          ms \in SeqsUpTo(HighlightMatchPool, n) \ {<<>>}}
  \cup {[p1 |-> <<>>, p2 |-> ms, p3 |-> HighlightDecoy] :
          ms \in SeqsUpTo(HighlightMatchPool, n) \ {<<>>}}
  \cup {[p1 |-> <<>>, p2 |-> <<>>, p3 |-> ms] :
          ms \in SeqsUpTo(HighlightMatchPool, n) \ {<<>>}}

\* A match of the TOPIC pattern.
TopicMatch(topic, conf, category) ==
  [topic |-> topic, conf |-> conf, category |-> category]

\* Matches of the TOPIC pattern: confidences 0.9, 1.5, no number, 0.3.
TopicMatchPool ==
  {TopicMatch(<<"A","I"," ">>, <<"0",".","9">>, <<"T","e","c","h">>),
   TopicMatch(<<"C","o","o","k","i","n","g">>, <<"1",".","5">>, <<"F","o","o","d">>),
   TopicMatch(<<"M","u","s","i","c">>, <<".">>, <<"A","r","t">>),
   TopicMatch(<<"M","a","t","h">>, <<"0",".","3">>, <<"S","c","i","e","n","c","e">>)}

\* The responses to the topic prompt with at most n matches.
TopicResponses(n) ==
  {[topicMatches |-> ms] : ms \in SeqsUpTo(TopicMatchPool, n)}

\* An entry of the parsed JSON array: an object with its three properties,
\* or null.
JsonObject(keyword, relevance, frequency) ==
  [t |-> "object", keyword |-> keyword, relevance |-> relevance,
   frequency |-> frequency]

JsonNull == [t |-> "null"]

\* Entries of the parsed JSON array: well-typed and in range, relevance
\* 1.5 with frequency 0, relevance -0.5, relevance given as a string, a
\* keyword that is a number, and null.
JsonItemPool ==
  {JsonObject(JsString(<<" ","a","i"," ">>), JsNumber(95), JsNumber(1200)),
   JsonObject(JsString(<<"m","l">>), JsNumber(150), JsNumber(0)),
   JsonObject(JsString(<<"d","a","t","a">>), JsNumber(-50), JsNumber(300)),
   JsonObject(JsString(<<"x">>), JsString(<<"0",".","9">>), JsNumber(400)),
   JsonObject(JsNumber(500), JsNumber(50), JsNumber(100)),
   JsonNull}

\* A match of a keyword pattern.
KeywordMatch(kw, rel, freq) == [kw |-> kw, rel |-> rel, freq |-> freq]

\* Matches of a keyword pattern: relevance 0.9, relevance 0.3 with frequency
\* 0, relevance 1.5.
KeywordMatchPool ==
  {KeywordMatch(<<"a","i">>, <<"0",".","9">>, <<"8">>),
   KeywordMatch(<<"m","l"," ">>, <<"0",".","3">>, <<"0">>),
   KeywordMatch(<<"b","i","g">>, <<"1",".","5">>, <<"2">>)}

\* What the response holds for the JSON tier: no [...] at all, a [...] that
\* JSON.parse rejects, or a parsed array.
JsonParts(n) ==
  {[state |-> "nomatch", items |-> <<>>], [state |-> "invalid", items |-> <<>>]}
  \cup {[state |-> "array", items |-> q] : q \in SeqsUpTo(JsonItemPool, n)}

\* The responses to the keyword prompt with at most i entries in the JSON
\* array and m matches of a pattern: every JSON part with few regex matches,
\* and two JSON parts (no array, an array of one well-formed entry) with every
\* list of regex matches.
KeywordResponses(i, m) ==
  {[json |-> j, p1 |-> r[1], p2 |-> r[2]] :
     j \in JsonParts(i),
     r \in {<<<<>>, <<>>>>,
            <<<<KeywordMatch(<<"a","i">>, <<"0",".","9">>, <<"8">>)>>, <<KeywordMatch(<<"n","l","p">>, <<"0",".","8">>, <<"5">>)>>>>}}
  \cup {[json |-> j, p1 |-> a, p2 |-> b] :
          j \in {[state |-> "nomatch", items |-> <<>>],
                 [state |-> "array",
                  items |-> <<JsonObject(JsString(<<" ","a","i"," ">>), JsNumber(95), JsNumber(1200))>>]},
          a \in SeqsUpTo(KeywordMatchPool, m),
          b \in SeqsUpTo(KeywordMatchPool, m)}

\* A match of the CHAPTER pattern.
ChapterMatch(ts, title, desc) == [ts |-> ts, title |-> title, desc |-> desc]

\* Matches of the CHAPTER pattern, at 90, 5, 4000 and 65 seconds.
ChapterMatchPool ==
  {ChapterMatch(<<"9","0">>, <<"S","e","t","u","p">>, <<"d">>),
   ChapterMatch(<<"5">>, <<"I","n","t","r","o"," ">>, <<"d">>),
   ChapterMatch(<<"4","0","0","0">>, <<"L","a","t","e">>, <<"d">>),
   ChapterMatch(<<"6","5">>, <<"D","e","m","o">>, <<"d">>)}

\* The responses to the chapter prompt with at most n matches.
ChapterResponses(n) ==
  {[chapterMatches |-> ms] : ms \in SeqsUpTo(ChapterMatchPool, n)}

\* The result of String.prototype.match: no match, or the captured group.
NoMatch == [matched |-> FALSE]
Matched(group) == [matched |-> TRUE, group |-> group]

\* Texts captured after SUMMARY: and after KEY POINTS:.
SummaryGroups ==
  {<<"A"," ","s","h","o","r","t"," ","t","a","l","k","."," ">>,
   <<>>}

KeyPointsGroups ==
  {<<"-"," ","o","n","e","\n","-"," ","t","w","o","\n">>,
   <<"-","a","\n","b","\n","-"," ">>,
   <<"x","\n"," ","-">>,
   <<"-"," ","a","\n"," "," ","-"," ","b">>,
   <<"n","o","n","e"," ","g","i","v","e","n">>,
   <<>>}

\* The responses to the summary prompt: the whole text and what the two
\* patterns capture in it.
SummaryResponses ==
  {[text |-> t, summaryMatch |-> sm, keyPointsMatch |-> km] :
     t \in {<<"J","u","s","t"," "," ","t","e","x","t">>, <<>>},
     sm \in {NoMatch} \cup {Matched(g) : g \in SummaryGroups},
     km \in {NoMatch} \cup {Matched(g) : g \in KeyPointsGroups}}

\* The counts a caller requests.
Counts == 1..MaxCount

\* Video durations in seconds, as numbers.
VideoDurations == {Num(0), Num(15000), Num(60000), Num(180000), Num(600000)}

\* The durations of the videos whose highlights are requested: 150 and 600
\* seconds.
HighlightDurations == {Num(15000), Num(60000)}


\* The concurrent withRetry invocations.
Calls == {1, 2}

VARIABLES
  surface,     \* classifier: the surface of the last classification
  raw,         \* classifier: the raw failure handed to it
  classified,  \* classifier: the error it returned
  calls,       \* retry: per invocation, the frame of withRetry
  op,          \* extractor: the operation requested and its arguments
  response,    \* extractor: the text generateText resolved with
  output,      \* extractor: what the operation returned or threw
  opc,         \* extractor: the position of the operation
  request,     \* server: the tool call received
  reply,       \* server: what the handler returned for it
  youtube      \* YouTube client: the instance and the position of each call in it

classVars == <<surface, raw, classified>>
retryVars == <<calls>>
extractVars == <<op, response, output, opc>>
serverVars == <<request, reply>>
clientVars == <<youtube>>

\* The frame of an invocation that has not been made.
Unused ==
  [pc |-> "unused", options |-> <<>>, maxAttempts |-> 0, initialDelay |-> 0,
   maxDelay |-> 0, shouldRetry |-> "always", attempt |-> 0,
   lastError |-> Undefined, invocations |-> 0, failures |-> <<>>,
   delays |-> <<>>, result |-> Undefined, cancelled |-> FALSE,
   cancelledIn |-> "none", cancelledAt |-> 0]

\* An invocation withRetry(fn, options) about to be made.
Pending(options) == [Unused EXCEPT !.pc = "start", !.options = options]

\* withRetry entry: destructure the options, attempt = 1, test the loop
\* condition and invoke fn; a loop that never runs falls to throw lastError!.
Call(c) ==
  /\ calls[c].pc = "start"
  /\ LET o == calls[c].options
         maxAttempts == Option(o, "maxAttempts", DefaultMaxAttempts)
         f == [calls[c] EXCEPT
                 !.maxAttempts = maxAttempts,
                 !.initialDelay = Option(o, "initialDelay", DefaultInitialDelay),
                 !.maxDelay = Option(o, "maxDelay", DefaultMaxDelay),
                 !.shouldRetry = Option(o, "shouldRetry", "always"),
                 !.attempt = 1]
     IN calls' = [calls EXCEPT ![c] =
          IF 1 <= maxAttempts
          THEN [f EXCEPT !.pc = "awaitFn", !.invocations = 1]
          ELSE [f EXCEPT !.pc = "thrown", !.result = f.lastError]]

\* Variant of FnResolve that keeps the value but goes on with the loop
\* while attempts are left.
FnResolve_noReturn(c, v) ==
  /\ calls[c].pc = "awaitFn"
  /\ calls' = [calls EXCEPT ![c] =
       [@ EXCEPT !.pc = IF @ = "awaitFn" /\ calls[c].attempt < calls[c].maxAttempts
                        THEN "delay" ELSE "returned",
                 !.result = v]]

\* return await fn(): fn resolved with v.
FnResolve(c, v) ==
  /\ calls[c].pc = "awaitFn"
  /\ calls' = [calls EXCEPT ![c] = [@ EXCEPT !.pc = "returned", !.result = v]]

\* Variant of FnReject that retries whatever the predicate says.
FnReject_ignorePredicate(c, e) ==
  /\ calls[c].pc = "awaitFn"
  /\ LET f == calls[c]
         lastError == IF InstanceOfError(e) THEN e ELSE NewError(StringOf(e))
         g == [f EXCEPT !.lastError = lastError,
                        !.failures = Append(@, lastError)]
     IN calls' = [calls EXCEPT ![c] =
          IF f.attempt = f.maxAttempts
          THEN [g EXCEPT !.pc = "thrown", !.result = lastError]
          ELSE [g EXCEPT !.pc = "delay",
                         !.delays = Append(@, Delay(f.initialDelay, f.maxDelay,
                                                    f.attempt))]]

\* catch (error): fn threw e.
FnReject(c, e) ==
  /\ calls[c].pc = "awaitFn"
  /\ LET f == calls[c]
         lastError == IF InstanceOfError(e) THEN e ELSE NewError(StringOf(e))
         g == [f EXCEPT !.lastError = lastError,
                        !.failures = Append(@, lastError)]
     IN calls' = [calls EXCEPT ![c] =
          IF f.attempt = f.maxAttempts \/ ~ShouldRetry(f.shouldRetry, lastError)
          THEN [g EXCEPT !.pc = "thrown", !.result = lastError]
          ELSE [g EXCEPT !.pc = "delay",
                         !.delays = Append(@, Delay(f.initialDelay, f.maxDelay,
                                                    f.attempt))]]

\* Variant of TimerFire with one attempt counter shared by all invocations.
TimerFire_sharedAttempt(c) ==
  /\ calls[c].pc = "delay"
  /\ LET f == [calls[c] EXCEPT !.attempt = @ + 1]
     IN calls' = [d \in Calls |->
          IF d = c
          THEN IF f.attempt <= f.maxAttempts
               THEN [f EXCEPT !.pc = "awaitFn", !.invocations = @ + 1]
               ELSE [f EXCEPT !.pc = "thrown", !.result = f.lastError]
          ELSE [calls[d] EXCEPT !.attempt = @ + 1]]

\* The setTimeout of the backoff fires: attempt++, loop test, next fn().
TimerFire(c) ==
  /\ calls[c].pc = "delay"
  /\ LET f == [calls[c] EXCEPT !.attempt = @ + 1]
     IN calls' = [calls EXCEPT ![c] =
          IF f.attempt <= f.maxAttempts
          THEN [f EXCEPT !.pc = "awaitFn", !.invocations = @ + 1]
          ELSE [f EXCEPT !.pc = "thrown", !.result = f.lastError]]

\* The caller gives the request up while withRetry is in flight.  withRetry
\* takes no cancellation input, so its frame only records the event.
Cancel(c) ==
  /\ calls[c].pc \in {"awaitFn", "delay"}
  /\ ~calls[c].cancelled
  /\ calls' = [calls EXCEPT ![c] =
       [@ EXCEPT !.cancelled = TRUE, !.cancelledIn = calls[c].pc,
                 !.cancelledAt = calls[c].invocations]]

vars ==
  <<surface, raw, classified, calls, op, response, output, opc, request, reply,
    youtube>>

\* The YouTubeClient instance after construction: no client, no initPromise;
\* no call is inside it.
NoClient ==
  youtube = [client |-> "null", initPromise |-> "null", reason |-> Undefined,
             creations |-> 0, at |-> [c \in Calls |-> "idle"]]

\* No tool call has been received.
NoRequest ==
  /\ request = [name |-> "none"]
  /\ reply = Undefined

\* No extractor operation has been requested.
NoOperation ==
  /\ op = [name |-> "none"]
  /\ response = Undefined
  /\ output = Undefined
  /\ opc = "idle"

(***************************************************************************)
(* Specification of the classifier: one raw failure, classified by the     *)
(* classifiers of the surfaces, any number of times.                       *)
(***************************************************************************)

InitClassify ==
  /\ surface = "none"
  /\ raw \in RawFailures
  /\ classified = Undefined
  /\ calls = [c \in Calls |-> Unused]
  /\ NoOperation
  /\ NoRequest
  /\ NoClient

\* A client catches the raw failure and hands it to the classifier of surface
\* s; the classifiers are static and can be called again on the same failure.
ClassifyAt(s) ==
  /\ surface' = s
  /\ classified' = Classify(s, raw)
  /\ UNCHANGED <<raw, retryVars, extractVars, serverVars, clientVars>>

ClassifyYouTube == ClassifyAt("remote-metadata")
ClassifyNetwork == ClassifyAt("network")
ClassifyFFmpeg == ClassifyAt("media-processing")
ClassifyAI == ClassifyAt("ai-generation")

NextClassify ==
  \/ ClassifyYouTube
  \/ ClassifyNetwork
  \/ ClassifyFFmpeg
  \/ ClassifyAI

SpecClassify == InitClassify /\ [][NextClassify]_vars

(***************************************************************************)
(* Properties of the classifier                                            *)
(***************************************************************************)

\* The rules of each classifier in declaration order: the keywords tested by
\* one if statement and the code it returns.
RulesOf(s) ==
  CASE s = "remote-metadata" ->
         <<[keywords |-> {KW.not_found, KW.does_not_exist}, code |-> "VIDEO_NOT_FOUND"],
           [keywords |-> {KW.private, KW.unavailable}, code |-> "VIDEO_UNAVAILABLE"],
           [keywords |-> {KW.age, KW.restricted}, code |-> "AGE_RESTRICTED"],
           [keywords |-> {KW.geo, KW.region, KW.country}, code |-> "GEO_BLOCKED"],
           [keywords |-> {KW.rate, KW.quota, KW.limit}, code |-> "RATE_LIMITED"]>>
    [] s = "network" ->
         <<[keywords |-> {KW.timeout}, code |-> "TIMEOUT"],
           [keywords |-> {KW.network, KW.connection}, code |-> "NETWORK_ERROR"],
           [keywords |-> {KW.disk, KW.space, KW.enospc}, code |-> "DISK_SPACE"]>>
    [] s = "media-processing" ->
         <<[keywords |-> {KW.codec, KW.encoder, KW.decoder}, code |-> "CODEC_ERROR"],
           [keywords |-> {KW.corrupt, KW.invalid, KW.damaged}, code |-> "CORRUPTED_FILE"]>>
    [] s = "ai-generation" ->
         <<[keywords |-> {KW.api_key, KW.authentication}, code |-> "AI_API_KEY_INVALID"],
           [keywords |-> {KW.rate, KW.quota, KW.limit}, code |-> "AI_RATE_LIMITED"],
           [keywords |-> {KW.token, KW.length, KW.too_long}, code |-> "AI_TOKEN_LIMIT"],
           [keywords |-> {KW.unavailable, KW.service}, code |-> "AI_SERVICE_UNAVAILABLE"]>>

\* Rule r matches the lowercased message m.
RuleMatches(r, m) == \E k \in r.keywords : Includes(m, k)

\* The indices of the rules of surface s that match the raw failure e.
MatchingRules(s, e) ==
  {i \in 1..Len(RulesOf(s)) : RuleMatches(RulesOf(s)[i], ToLowerCase(e.message))}

\* The smallest element of a non-empty set of indices.
Least(S) == CHOOSE i \in S : \A j \in S : i <= j

Classified == surface # "none"

C8_FirstRuleWins ==
  Classified =>
    /\ MatchingRules(surface, raw) # {} =>
         classified.code = RulesOf(surface)[Least(MatchingRules(surface, raw))].code
    /\ (surface = "ai-generation" /\ {1, 2} \subseteq MatchingRules(surface, raw)) =>
         classified.code = "AI_API_KEY_INVALID"

\* C8 witness: an AI failure that matches the auth rule and the rate rule
\* has been classified.
C8_Witness ==
  /\ surface = "ai-generation"
  /\ {1, 2} \subseteq MatchingRules(surface, raw)
  /\ classified.code = "AI_API_KEY_INVALID"

\* C9 (state part): classification yields exactly one error, whose kind is
\* one value of the closed ErrorCode set.
C9_State ==
  Classified =>
    /\ classified.kind = "YTNinjaError"
    /\ Cardinality({k \in ErrorCode : classified.code = k}) = 1

\* C9 (step part): classifying the same failure on the same surface again
\* returns the same kind, message and remediations.
C9_Step ==
  (Classified /\ surface' = surface /\ raw' = raw) =>
    /\ classified'.code = classified.code
    /\ classified'.message = classified.message
    /\ classified'.suggestions = classified.suggestions

C10_SuggestionsAndCause ==
  Classified =>
    /\ classified.code # "UNKNOWN_ERROR" =>
         Len(classified.suggestions) >= 1 /\ classified.details = raw
    /\ classified.code = "UNKNOWN_ERROR" => classified.suggestions = <<>>

\* C10 witness: a classifier has returned a known kind with its suggestions.
C10_Witness ==
  /\ Classified
  /\ classified.code = "GEO_BLOCKED"
  /\ Len(classified.suggestions) = 1
  /\ classified.details = raw

(***************************************************************************)
(* Specification of the retry executor: one withRetry invocation with any  *)
(* options object and any sequence of outcomes of the wrapped operation.   *)
(***************************************************************************)

InitRetry ==
  /\ surface = "none"
  /\ raw = Undefined
  /\ classified = Undefined
  /\ \E o \in OptionSets :
       calls = [c \in Calls |-> IF c = 1 THEN Pending(o) ELSE Unused]
  /\ NoOperation
  /\ NoRequest
  /\ NoClient

DoCall == \E c \in Calls : Call(c) /\ UNCHANGED <<classVars, extractVars, serverVars, clientVars>>
DoFnResolve ==
  \E c \in Calls, v \in ResolvedValues : FnResolve(c, v) /\ UNCHANGED <<classVars, extractVars, serverVars, clientVars>>
DoFnReject ==
  \E c \in Calls, e \in ThrownValues : FnReject(c, e) /\ UNCHANGED <<classVars, extractVars, serverVars, clientVars>>
DoTimerFire == \E c \in Calls : TimerFire(c) /\ UNCHANGED <<classVars, extractVars, serverVars, clientVars>>
DoCancel == \E c \in Calls : Cancel(c) /\ UNCHANGED <<classVars, extractVars, serverVars, clientVars>>

NextRetry ==
  \/ DoCall
  \/ DoFnResolve
  \/ DoFnReject
  \/ DoTimerFire
  \/ DoCancel

Spec == InitRetry /\ [][NextRetry]_vars

(***************************************************************************)
(* Properties of the retry executor                                        *)
(***************************************************************************)

\* Every failure of the invocation so far was accepted by its retry predicate.
AllFailuresAccepted(f) ==
  \A i \in 1..Len(f.failures) : ShouldRetry(f.shouldRetry, f.failures[i])

\* The call site relies on the defaults (3, 1000ms, 8000ms).
UsesDefaults(f) ==
  DOMAIN f.options \cap {"maxAttempts", "initialDelay", "maxDelay"} = {}

\* C1: when the operation fails on every attempt with a failure the retry
\* predicate accepts, withRetry invokes it exactly maxAttempts times before
\* propagating the failure, and the delay waited after the n-th failed
\* attempt (1 <= n < maxAttempts) is min(initialDelay * 2^(n-1), maxDelay);
\* with the defaults that is 3 invocations separated by 1000 then 2000.
C1_ExactAttemptsAndBackoff ==
  \A c \in Calls :
    LET f == calls[c] IN
    /\ \A n \in 1..Len(f.delays) :
         /\ n < f.maxAttempts
         /\ f.delays[n] = Min(f.initialDelay * 2^(n - 1), f.maxDelay)
    /\ (f.pc = "thrown" /\ AllFailuresAccepted(f)) =>
         /\ f.invocations = f.maxAttempts
         /\ Len(f.failures) = f.maxAttempts
         /\ Len(f.delays) = IF f.maxAttempts > 0 THEN f.maxAttempts - 1 ELSE 0
         /\ UsesDefaults(f) => f.invocations = 3 /\ f.delays = <<1000, 2000>>

\* C1 witness: a call relying on the defaults has failed three times with
\* retryable failures and propagated after waiting two delays.
C1_Witness ==
  \E c \in Calls :
    LET f == calls[c] IN
    /\ f.pc = "thrown"
    /\ UsesDefaults(f)
    /\ f.shouldRetry = "isRetryableError"
    /\ Len(f.failures) = 3
    /\ AllFailuresAccepted(f)
    /\ Len(f.delays) = 2

\* C2: a failure the retry predicate rejects, or the failure of the
\* maxAttempts-th attempt, is propagated at once: no delay follows it and the
\* operation is not invoked again; a non-retryable first failure means
\* exactly one invocation.
C2_PropagateImmediately ==
  \A c \in Calls :
    LET f == calls[c] IN
    \A i \in 1..Len(f.failures) :
      (~ShouldRetry(f.shouldRetry, f.failures[i]) \/ i = f.maxAttempts) =>
        /\ f.pc = "thrown"
        /\ f.result = f.failures[i]
        /\ Len(f.failures) = i
        /\ f.invocations = i
        /\ Len(f.delays) = i - 1

\* C2 witness: the first attempt of a call allowing more attempts failed with
\* a failure isRetryableError rejects, and the call has propagated it.
C2_Witness ==
  \E c \in Calls :
    LET f == calls[c] IN
    /\ f.pc = "thrown"
    /\ f.maxAttempts > 1
    /\ Len(f.failures) = 1
    /\ ~ShouldRetry(f.shouldRetry, f.failures[1])
    /\ f.invocations = 1

\* An invocation that has returned or propagated.
Done(f) == f.pc \in {"returned", "thrown"}

\* C3 (state part): a resolved attempt ends the invocation with its value,
\* and the operation is never invoked more than maxAttempts times.
C3_State ==
  \A c \in Calls :
    LET f == calls[c] IN
    /\ f.pc \notin {"unused", "start"} => f.invocations <= f.maxAttempts
    /\ f.result \in ResolvedValues =>
         f.pc = "returned" /\ f.invocations = Len(f.failures) + 1

\* C3 (step part): once withRetry has returned or propagated, the operation
\* is not invoked again.
C3_Step ==
  \A c \in Calls :
    Done(calls[c]) => calls'[c].invocations = calls[c].invocations

\* C3: as soon as one attempt succeeds its result is returned and the
\* operation is never invoked again; it is invoked at most maxAttempts times
\* and never after withRetry has returned or propagated a failure.
C3_ReturnOnSuccess == [](C3_State) /\ [][C3_Step]_vars

\* C3 witness: a call returned the value of a later attempt while attempts
\* were still left.
C3_Witness ==
  \E c \in Calls :
    LET f == calls[c] IN
    /\ f.pc = "returned"
    /\ Len(f.failures) >= 1
    /\ f.invocations < f.maxAttempts

\* C6: if the caller cancels while withRetry is suspended in an
\* inter-attempt delay, the operation is never invoked again after the
\* cancellation and the cancellation, not a retry outcome, is what the
\* caller gets.
C6_CancelAbandonsRetries ==
  \A c \in Calls :
    LET f == calls[c] IN
    (f.cancelled /\ f.cancelledIn = "delay") =>
      /\ f.invocations = f.cancelledAt
      /\ Done(f) => (f.pc = "thrown" /\ f.result.kind = "YTNinjaError"
                      /\ f.result.code = "OPERATION_CANCELLED")

(***************************************************************************)
(* Specification of the extractors: generateText has resolved with some    *)
(* response, and the operation interprets it.                              *)
(***************************************************************************)

\* What an operation returns / what it throws.
Returned(value) == [kind |-> "value", value |-> value]
Threw(error) == [kind |-> "error", error |-> error]

\* The operations with their arguments and a response to their prompt,
\* with at most i entries in a JSON array and m matches of a pattern.
Requests(i, m, counts) ==
  {[op |-> [name |-> "keywords", count |-> c], response |-> r] :
     c \in counts, r \in KeywordResponses(i, m)}
  \cup {[op |-> [name |-> "topics"], response |-> r] : r \in TopicResponses(m)}
  \cup {[op |-> [name |-> "highlights", videoDuration |-> d, count |-> c],
         response |-> r] :
          d \in HighlightDurations, c \in counts, r \in HighlightResponses(m)}
  \cup {[op |-> [name |-> "chapters", videoDuration |-> d], response |-> r] :
          d \in VideoDurations, r \in ChapterResponses(m)}
  \cup {[op |-> [name |-> "summarize"], response |-> r] : r \in SummaryResponses}

InitParse ==
  /\ surface = "none"
  /\ raw = Undefined
  /\ classified = Undefined
  /\ calls = [c \in Calls |-> Unused]
  /\ \E q \in Requests(MaxItems, MaxMatches, Counts) :
       /\ op = q.op
       /\ response = q.response
  /\ output = Undefined
  /\ opc = "generated"
  /\ NoRequest
  /\ NoClient

\* The rest of an operation once generateText has resolved: it returns what
\* its extractor makes of the response.
Parse(name, value) ==
  /\ opc = "generated"
  /\ op.name = name
  /\ output' = Returned(value)
  /\ opc' = "done"
  /\ UNCHANGED <<classVars, retryVars, op, response, serverVars, clientVars>>

ParseSummary == Parse("summarize", parseSummary(response))
ParseChapters == Parse("chapters", parseChapters(response, op.videoDuration))
ParseKeywords == Parse("keywords", parseKeywords(response, op.count))
ParseTopics == Parse("topics", parseTopics(response))
ParseHighlights ==
  Parse("highlights", parseHighlights(response, op.videoDuration, op.count))

NextParse ==
  \/ ParseSummary
  \/ ParseChapters
  \/ ParseKeywords
  \/ ParseTopics
  \/ ParseHighlights

SpecParse == InitParse /\ [][NextParse]_vars

(***************************************************************************)
(* Specification of the AI operations: each calls generateText, which      *)
(* wraps the provider call in withRetry, and interprets the response.      *)
(***************************************************************************)

\* The AI invocation an operation's generateText runs in.
OpCall == 1

\* n times the character ch.
Repeat(ch, n) == [i \in 1..n |-> ch]

\* Transcripts: none, 49 characters between blanks, 50 characters.
Transcripts ==
  {<<>>, <<" ">> \o Repeat("a", 49) \o <<" ">>, Repeat("a", 50)}

\* What the provider call can fail with: Errors and a value that is no Error.
ProviderFailures ==
  {NewError(FRAG.Rate_limit), NewError(FRAG.API_key), NewError(FRAG.service),
   NewError(FRAG.Timeout), [kind |-> "string", text |-> FRAG.network_connection]}

\* The operations requested and the responses the provider can give to each.
OpRequests == Requests(1, 1, {1})

InitOps ==
  /\ surface = "none"
  /\ raw = Undefined
  /\ classified = Undefined
  /\ calls = [c \in Calls |-> Unused]
  /\ \E q \in OpRequests, t \in Transcripts :
       op = IF q.op.name = "keywords"
            THEN [name |-> "keywords", count |-> q.op.count, transcript |-> t]
            ELSE q.op
  /\ response = Undefined
  /\ output = Undefined
  /\ opc = "idle"
  /\ NoRequest
  /\ NoClient

\* The operation starts: extractKeywords returns [] for a transcript that is
\* empty or shorter than 50 characters once trimmed; every other case calls
\* generateText, which enters withRetry with isRetryableError.
OpStart ==
  /\ opc = "idle"
  /\ op.name # "none"
  /\ IF op.name = "keywords" /\ (op.transcript = <<>> \/ Len(Trim(op.transcript)) < 50)
     THEN /\ output' = Returned(<<>>)
          /\ opc' = "done"
          /\ UNCHANGED calls
     ELSE /\ calls' = [calls EXCEPT ![OpCall] = Pending([shouldRetry |-> "isRetryableError"])]
          /\ opc' = "generating"
          /\ UNCHANGED output
  /\ UNCHANGED <<classVars, op, response, serverVars, clientVars>>

\* withRetry invokes the provider call for the first time.
GenerateTextCall ==
  /\ opc = "generating"
  /\ Call(OpCall)
  /\ UNCHANGED <<classVars, extractVars, serverVars, clientVars>>

\* The provider answers: result.text is returned through withRetry to the
\* operation.
ProviderResolve ==
  /\ opc = "generating"
  /\ \E q \in OpRequests :
       /\ q.op.name = op.name
       /\ FnResolve(OpCall, [kind |-> "value", text |-> q.response])
       /\ response' = q.response
  /\ opc' = "generated"
  /\ UNCHANGED <<classVars, op, output, serverVars, clientVars>>

\* The provider call throws: the catch of generateText classifies the error
\* and throws the classified error into withRetry.
ProviderReject ==
  /\ opc = "generating"
  /\ \E e \in ProviderFailures :
       FnReject(OpCall, classifyAIError(IF InstanceOfError(e) THEN e
                                        ELSE NewError(StringOf(e))))
  /\ UNCHANGED <<classVars, extractVars, serverVars, clientVars>>

\* The backoff delay of generateText's withRetry ends.
GenerateTextRetry ==
  /\ opc = "generating"
  /\ TimerFire(OpCall)
  /\ UNCHANGED <<classVars, extractVars, serverVars, clientVars>>

\* withRetry has thrown: summarizeVideo, generateChapters and detectTopics
\* have no handler and throw the same error; extractKeywords and
\* generateHighlights catch it and return [].
GenerateTextThrows ==
  /\ opc = "generating"
  /\ calls[OpCall].pc = "thrown"
  /\ output' = IF op.name \in {"keywords", "highlights"}
               THEN Returned(<<>>)
               ELSE Threw(calls[OpCall].result)
  /\ opc' = "done"
  /\ UNCHANGED <<classVars, retryVars, op, response, serverVars, clientVars>>

NextOps ==
  \/ OpStart
  \/ GenerateTextCall
  \/ ProviderResolve
  \/ ProviderReject
  \/ GenerateTextRetry
  \/ GenerateTextThrows
  \/ ParseSummary
  \/ ParseChapters
  \/ ParseKeywords
  \/ ParseTopics
  \/ ParseHighlights

SpecOps == InitOps /\ [][NextOps]_vars

(***************************************************************************)
(* Properties of the AI operations                                         *)
(***************************************************************************)

\* C4: for each of summarize, chapters, keywords, topics and highlights, when
\* the retry-wrapped text generation fails the operation fails with the
\* classified error that withRetry threw; it returns no empty collection and
\* no fallback result in that case.
C4_UpstreamFailurePropagates ==
  (opc = "done" /\ calls[OpCall].pc = "thrown") =>
    /\ output.kind = "error"
    /\ output.error = calls[OpCall].result
    /\ output.error.kind = "YTNinjaError"

\* A captured number is finite and within [0, 1].
InUnitRange(text) ==
  LET x == parseFloat(text) IN
  ~isNaN(x) /\ Geq(x, Num(0)) /\ Leq(x, Num(100))

\* The records of the response that pass the validators of their content
\* type: topics with a confidence in [0, 1]; highlights of the first pattern
\* with matches, with 0 <= start <= videoDuration, duration > 0 and a score
\* in [0, 1]; keywords that are well-typed entries of the JSON array or
\* matches of a keyword pattern with a keyword and a relevance in [0, 1].
ValidRecords ==
  CASE op.name = "topics" ->
         {<<"topic", i>> : i \in {i \in 1..Len(response.topicMatches) :
                                    InUnitRange(response.topicMatches[i].conf)}}
    [] op.name = "highlights" ->
         LET ms == IF response.p1 # <<>> THEN response.p1
                   ELSE IF response.p2 # <<>> THEN response.p2
                   ELSE response.p3
             valid(m) ==
               /\ ~isNaN(parseInt(m.ts))
               /\ Leq(parseInt(m.ts), op.videoDuration)
               /\ Gt(parseInt(m.dur), Num(0))
               /\ InUnitRange(m.score)
         IN {<<"highlight", i>> : i \in {i \in 1..Len(ms) : valid(ms[i])}}
    [] op.name = "keywords" ->
         LET items == response.json.items
             entry(x) ==
               /\ x.t = "object"
               /\ x.keyword.t = "string"
               /\ Trim(x.keyword.s) # <<>>
               /\ x.relevance.t = "number"
               /\ x.frequency.t = "number"
             match(m) ==
               /\ Trim(m.kw) # <<>>
               /\ InUnitRange(m.rel)
               /\ ~isNaN(parseInt(m.freq))
         IN {<<"json", i>> : i \in {i \in 1..Len(items) : entry(items[i])}}
            \cup {<<"p1", i>> : i \in {i \in 1..Len(response.p1) : match(response.p1[i])}}
            \cup {<<"p2", i>> : i \in {i \in 1..Len(response.p2) : match(response.p2[i])}}
    [] OTHER -> {}

\* C5: for keywords, topics and highlights, once text generation has
\* succeeded the operation returns a collection and raises no error,
\* whatever the generated text is, and the collection is empty when the
\* response holds no valid record.
C5_NoErrorAndEmptyOnShortfall ==
  (opc = "done" /\ response # Undefined
     /\ op.name \in {"keywords", "topics", "highlights"}) =>
    /\ output.kind = "value"
    /\ ValidRecords = {} => output.value = <<>>

(***************************************************************************)
(* Specification of the server: the CallToolRequestSchema handler serving  *)
(* a summarize_video call, and the failure it returns to the tool caller.  *)
(***************************************************************************)

\* Message literals of the handler and of the managers it calls.
TXT ==
  [Missing_arguments |-> <<"M","i","s","s","i","n","g"," ","a","r","g","u","m","e","n","t","s"," ","f","o","r"," ","t","o","o","l"," ","c","a","l","l">>,
   Unknown_tool |-> <<"U","n","k","n","o","w","n"," ","t","o","o","l",":"," ","n","o","_","s","u","c","h","_","t","o","o","l">>,
   Invalid_URL |-> <<"I","n","v","a","l","i","d"," ","Y","o","u","T","u","b","e"," ","v","i","d","e","o"," ","U","R","L">>,
   No_video_ID |-> <<"C","o","u","l","d"," ","n","o","t"," ","e","x","t","r","a","c","t"," ","v","i","d","e","o"," ","I","D">>,
   Audio_extraction_disabled |-> <<"A","u","d","i","o"," ","e","x","t","r","a","c","t","i","o","n"," ","r","e","q","u","i","r","e","s"," ","d","o","w","n","l","o","a","d"," ","f","u","n","c","t","i","o","n","a","l","i","t","y"," ","w","h","i","c","h"," ","h","a","s"," ","b","e","e","n"," ","d","i","s","a","b","l","e","d">>]

\* wrapError: a YTNinjaError is returned as it is, any other thrown value
\* becomes an UNKNOWN_ERROR without suggestions.
wrapError(error) ==
  IF error.kind = "YTNinjaError" THEN error
  ELSE IF InstanceOfError(error)
  THEN YTNinjaError("UNKNOWN_ERROR", error.message, error, <<>>)
  ELSE YTNinjaError("UNKNOWN_ERROR", StringOf(error), Undefined, <<>>)

\* YTNinjaError.toErrorResponse
toErrorResponse(error) ==
  [success |-> FALSE,
   error |-> [code |-> error.code, message |-> error.message,
              details |-> error.details, suggestions |-> error.suggestions]]

\* The tool calls received: the tool named, whether arguments came with it,
\* and what YouTubeURLValidator makes of args.url; with them, how far
\* summarizeVideo has come (stage), what the first retrieval of the official
\* transcript gave (retrieval) and where the transcript in use comes from
\* (source).
ToolCalls ==
  [name : {"summarize_video", "no_such_tool"},
   args : {"missing", "present"},
   url : {"valid", "invalid", "noId"},
   stage : {"received"},
   retrieval : {"untried"},
   source : {"none"}]

\* The raw failures of the provider behind a tool call.
UpstreamFailures == {NewError(m) : m \in RawFragments}

InitServer ==
  /\ surface = "none"
  /\ raw \in UpstreamFailures
  /\ classified = Undefined
  /\ calls = [c \in Calls |-> Unused]
  /\ NoOperation
  /\ request \in ToolCalls
  /\ reply = Undefined
  /\ NoClient

\* The catch of the handler: the thrown value is wrapped and returned as an
\* error response.
Fails(thrown) ==
  /\ reply' = [isError |-> TRUE, body |-> toErrorResponse(wrapError(thrown))]
  /\ request' = [request EXCEPT !.stage = "replied"]
  /\ UNCHANGED <<classVars, retryVars, extractVars, clientVars>>

\* if (!args) throw new Error('Missing arguments for tool call')
MissingArguments ==
  /\ request.stage = "received"
  /\ request.args = "missing"
  /\ Fails(NewError(TXT.Missing_arguments))

\* default: throw new Error(`Unknown tool: ${name}`)
UnknownTool ==
  /\ request.stage = "received"
  /\ request.args = "present"
  /\ request.name # "summarize_video"
  /\ Fails(NewError(TXT.Unknown_tool))

\* AIAnalyzer.summarizeVideo rejects the URL.
InvalidURL ==
  /\ request.stage = "received"
  /\ request.args = "present"
  /\ request.name = "summarize_video"
  /\ request.url # "valid"
  /\ Fails(YTNinjaError("INVALID_URL",
                        IF request.url = "invalid" THEN TXT.Invalid_URL
                        ELSE TXT.No_video_ID,
                        [url |-> request.url], <<>>))

\* summarizeVideo awaits transcriptManager.getTranscript(url), which either
\* resolves with the official transcript or rejects; the bare catch of
\* summarizeVideo turns a rejection into a call of generateTranscript.
GetTranscript ==
  /\ request.stage = "received"
  /\ request.args = "present"
  /\ request.name = "summarize_video"
  /\ request.url = "valid"
  /\ \/ request' = [request EXCEPT !.stage = "summarizing", !.retrieval = "resolved",
                                   !.source = "official"]
     \/ request' = [request EXCEPT !.stage = "fallback", !.retrieval = "rejected"]
  /\ UNCHANGED <<classVars, retryVars, extractVars, reply, clientVars>>

\* generateTranscript first asks for the official transcript once more; when
\* that resolves, the official transcript is what it returns.
GenerateTranscriptOfficial ==
  /\ request.stage = "fallback"
  /\ request' = [request EXCEPT !.stage = "summarizing", !.source = "official"]
  /\ UNCHANGED <<classVars, retryVars, extractVars, reply, clientVars>>

\* When that rejects too, generateTranscript awaits extractAudio, which throws
\* DOWNLOAD_FAILED for every valid URL; transcribeAudio is not reached, the
\* catch of generateTranscript and the catch of summarizeVideo rethrow the
\* YTNinjaError, and the handler replies with it.
ExtractAudioThrows ==
  /\ request.stage = "fallback"
  /\ Fails(YTNinjaError("DOWNLOAD_FAILED", TXT.Audio_extraction_disabled, Undefined,
                        <<"Use official YouTube transcripts instead",
                          "Download functionality is not available">>))

\* genaiClient.summarizeVideo throws what generateText threw, the classified
\* raw failure of the provider; summarizeVideo rethrows it.
GenerationFails ==
  /\ request.stage = "summarizing"
  /\ Fails(classifyAIError(raw))

\* The summary of the transcript is returned.
Succeeds ==
  /\ request.stage = "summarizing"
  /\ reply' = [isError |-> FALSE, body |-> [success |-> TRUE]]
  /\ request' = [request EXCEPT !.stage = "replied"]
  /\ UNCHANGED <<classVars, retryVars, extractVars, clientVars>>

NextServer ==
  \/ MissingArguments
  \/ UnknownTool
  \/ InvalidURL
  \/ GetTranscript
  \/ GenerateTranscriptOfficial
  \/ ExtractAudioThrows
  \/ GenerationFails
  \/ Succeeds

SpecServer == InitServer /\ [][NextServer]_vars

(***************************************************************************)
(* Properties of the server                                                *)
(***************************************************************************)

\* C11: every failure the server returns to a tool caller whose code is not
\* UNKNOWN_ERROR carries at least one remediation suggestion, whichever
\* manager raised it; a failure of code UNKNOWN_ERROR carries no suggestion.
C11_KnownKindHasSuggestion ==
  (reply # Undefined /\ reply.isError) =>
    IF reply.body.error.code # "UNKNOWN_ERROR"
    THEN Len(reply.body.error.suggestions) >= 1
    ELSE reply.body.error.suggestions = <<>>

(***************************************************************************)
(* Specification of the default retry predicate: withRetry, called with    *)
(* isRetryableError, around an operation that always throws one failure.   *)
(***************************************************************************)

\* The failures the operation throws: classified failures of every code,
\* with a message that names a timeout or not, and unclassified Errors.
PredicateInputs ==
  {YTNinjaError(code, m, Undefined, <<>>) :
     code \in ErrorCode, m \in {FRAG.Timeout, FRAG.Boom}}
  \cup RawFailures

InitPredicate ==
  /\ surface = "none"
  /\ raw \in PredicateInputs
  /\ classified = Undefined
  /\ calls = [c \in Calls |->
                IF c = OpCall THEN Pending([shouldRetry |-> "isRetryableError"])
                ELSE Unused]
  /\ NoOperation
  /\ NoRequest
  /\ NoClient

\* withRetry invokes the operation for the first time.
PredicateCall ==
  Call(OpCall) /\ UNCHANGED <<classVars, extractVars, serverVars, clientVars>>

\* The operation throws the failure; the catch asks the predicate.
PredicateReject ==
  FnReject(OpCall, raw) /\ UNCHANGED <<classVars, extractVars, serverVars, clientVars>>

\* The backoff delay ends and the operation is invoked again.
PredicateRetry ==
  TimerFire(OpCall) /\ UNCHANGED <<classVars, extractVars, serverVars, clientVars>>

NextPredicate ==
  \/ PredicateCall
  \/ PredicateReject
  \/ PredicateRetry

SpecPredicate == InitPredicate /\ [][NextPredicate]_vars

(***************************************************************************)
(* Properties of the default retry predicate                               *)
(***************************************************************************)

\* The text t occurs in s, letter case aside.
Mentions(s, t) ==
  \E i \in 1..(Len(s) - Len(t) + 1) :
    ToLowerCase(SubSeq(s, i, i + Len(t) - 1)) = t

\* The failures the default predicate is to accept: classified failures of
\* the transient-network, rate-limit and download-origin codes, and
\* unclassified failures whose message names a timeout, the network, a rate
\* limit or something temporary.
Accepted(e) ==
  IF e.kind = "YTNinjaError"
  THEN e.code \in {"NETWORK_ERROR", "TIMEOUT", "RATE_LIMITED",
                   "AI_RATE_LIMITED", "DOWNLOAD_FAILED", "INCOMPLETE_DOWNLOAD"}
  ELSE \/ Mentions(e.message, <<"t","i","m","e","o","u","t">>)
       \/ Mentions(e.message, <<"n","e","t","w","o","r","k">>)
       \/ Mentions(e.message, <<"r","a","t","e"," ","l","i","m","i","t">>)
       \/ Mentions(e.message, <<"t","e","m","p","o","r","a","r","y">>)

\* C12: the default retry predicate accepts exactly the classified failures
\* of codes NETWORK_ERROR, TIMEOUT, RATE_LIMITED, AI_RATE_LIMITED,
\* DOWNLOAD_FAILED, INCOMPLETE_DOWNLOAD and the unclassified failures whose
\* message contains "timeout", "network", "rate limit" or "temporary": after
\* the first failure withRetry schedules a retry exactly for those.
C12_RetryableExactly ==
  LET f == calls[OpCall] IN
  (f.shouldRetry = "isRetryableError" /\ Len(f.failures) >= 1
     /\ f.lastError = raw /\ f.maxAttempts = DefaultMaxAttempts) =>
    /\ isRetryableError(raw) <=> Accepted(raw)
    /\ Len(f.delays) >= 1 <=> Accepted(raw)

\* A classified download failure has been thrown and a retry scheduled.
C12_Witness ==
  LET f == calls[OpCall] IN
  /\ raw.kind = "YTNinjaError"
  /\ raw.code = "DOWNLOAD_FAILED"
  /\ Len(f.failures) >= 1
  /\ Len(f.delays) >= 1

(***************************************************************************)
(* Properties of the extractors                                            *)
(***************************************************************************)

\* The positions of s whose element satisfies the test, in order.
Positions(s, idx) ==
  [k \in 1..Cardinality(idx) |->
     CHOOSE i \in idx : Cardinality({j \in idx : j < i}) = k - 1]

\* An entry of the JSON array with a keyword text and two numbers.
WellTypedEntry(x) ==
  /\ x.t = "object"
  /\ x.keyword.t = "string"
  /\ x.keyword.s # <<>>
  /\ x.relevance.t = "number"
  /\ x.frequency.t = "number"

\* The JSON array holds objects with a text keyword only, at least
\* min(3, count) of them well-typed.
JsonTierWins ==
  LET items == response.json.items IN
  /\ response.json.state = "array"
  /\ \A i \in 1..Len(items) : items[i].t = "object" /\ items[i].keyword.t = "string"
  /\ Cardinality({i \in 1..Len(items) : WellTypedEntry(items[i])}) >= Min(3, op.count)

\* C13: in the JSON tier of the keyword extractor a well-typed entry is
\* never discarded for an out-of-range number: the result holds the first
\* count well-typed entries, each with its relevance clamped into [0, 1] and
\* its frequency clamped to at least 1.
C13_JsonTierClamps ==
  (opc = "done" /\ op.name = "keywords" /\ response # Undefined /\ JsonTierWins) =>
    LET items == response.json.items
        at == Positions(items, {i \in 1..Len(items) : WellTypedEntry(items[i])})
        out == output.value
    IN /\ output.kind = "value"
       /\ Len(out) = Min(op.count, Len(at))
       /\ \A k \in 1..Len(out) :
            LET x == items[at[k]] IN
            /\ out[k].keyword = Trim(x.keyword.s)
            /\ out[k].relevance =
                 Num(IF x.relevance.n.c > 100 THEN 100
                     ELSE IF x.relevance.n.c < 0 THEN 0 ELSE x.relevance.n.c)
            /\ out[k].frequency =
                 Num(IF x.frequency.n.c < 100 THEN 100 ELSE x.frequency.n.c)

\* The JSON tier has returned an entry given with relevance 1.5 and
\* frequency 0 as relevance 1 and frequency 1, and one given with a negative
\* relevance as relevance 0.
C13_Witness ==
  /\ opc = "done"
  /\ op.name = "keywords"
  /\ response # Undefined
  /\ JsonTierWins
  /\ \E i \in 1..Len(response.json.items) :
       /\ WellTypedEntry(response.json.items[i])
       /\ response.json.items[i].relevance.n.c = 150
       /\ response.json.items[i].frequency.n.c = 0
  /\ \E k \in 1..Len(output.value) :
       output.value[k].relevance = Num(100) /\ output.value[k].frequency = Num(100)
  /\ \E i \in 1..Len(response.json.items) :
       /\ WellTypedEntry(response.json.items[i])
       /\ response.json.items[i].relevance.n.c < 0
  /\ \E k \in 1..Len(output.value) : output.value[k].relevance = Num(0)

\* C14: every topic returned by the topic extractor has a confidence in
\* [0, 1]; a parsed topic with a confidence outside it is not returned.
C14_TopicConfidenceInRange ==
  (opc = "done" /\ op.name = "topics" /\ response # Undefined) =>
    /\ output.kind = "value"
    /\ \A k \in 1..Len(output.value) :
         LET c == output.value[k].confidence IN
         ~isNaN(c) /\ Geq(c, Num(0)) /\ Leq(c, Num(100))

\* The blocks the highlight extractor parses: the matches of the first of
\* the three patterns that has any.
Blocks ==
  IF response.p1 # <<>> THEN response.p1
  ELSE IF response.p2 # <<>> THEN response.p2
  ELSE response.p3

\* A block with 0 <= start <= totalDuration, duration > 0, 0 <= score <= 1.
ValidBlock(m) ==
  /\ ~isNaN(parseInt(m.ts))
  /\ Geq(parseInt(m.ts), Num(0))
  /\ Leq(parseInt(m.ts), op.videoDuration)
  /\ Gt(parseInt(m.dur), Num(0))
  /\ InUnitRange(m.score)

\* The positions of the valid blocks.
ValidBlocks == {i \in 1..Len(Blocks) : ValidBlock(Blocks[i])}

\* The highlight extractor has answered.
HighlightsDone ==
  opc = "done" /\ op.name = "highlights" /\ response # Undefined

\* The returned highlight h is made from the block m.
MadeFrom(h, m) ==
  /\ h.description = Trim(m.desc)
  /\ h.reason = Trim(m.reason)
  /\ h.score = parseFloat(m.score)

\* C15: every highlight returned comes from a parsed block with
\* 0 <= start <= totalDuration, duration > 0 and 0 <= score <= 1; a block
\* violating any of these is discarded and the other blocks are still
\* returned, as far as count allows.
C15_OnlyValidBlocks ==
  HighlightsDone =>
    /\ output.kind = "value"
    /\ \A k \in 1..Len(output.value) :
         \E i \in ValidBlocks : MadeFrom(output.value[k], Blocks[i])
    /\ Len(output.value) = Min(op.count, Cardinality(ValidBlocks))

\* A block starting at 200 seconds in a video of 150 seconds has been
\* discarded and the valid block next to it returned.
C15_Witness ==
  /\ HighlightsDone
  /\ op.videoDuration = Num(15000)
  /\ Len(Blocks) = 2
  /\ parseInt(Blocks[1].ts) = Num(20000)
  /\ parseInt(Blocks[1].dur) = Num(3000)
  /\ ValidBlocks = {2}
  /\ Len(output.value) = 1
  /\ MadeFrom(output.value[1], Blocks[2])

\* C16: every highlight returned satisfies start + duration <= totalDuration.
C16_EndsWithinMedia ==
  HighlightsDone =>
    \A k \in 1..Len(output.value) :
      \E i \in 1..Len(Blocks) :
        /\ MadeFrom(output.value[k], Blocks[i])
        /\ parseInt(Blocks[i].ts).c + parseInt(Blocks[i].dur).c <= op.videoDuration.c

\* The valid blocks ranked before block i: a higher score, or the same score
\* and seen earlier.
Before(i) ==
  {j \in ValidBlocks :
     \/ Gt(parseFloat(Blocks[j].score), parseFloat(Blocks[i].score))
     \/ parseFloat(Blocks[j].score) = parseFloat(Blocks[i].score) /\ j < i}

\* C18: the highlight extractor returns the min(count, number of valid
\* blocks) highest-scored valid highlights in non-increasing score order,
\* equal scores in first-seen order; it cuts to count after ranking.
C18_TopByScore ==
  HighlightsDone =>
    /\ Len(output.value) = Min(op.count, Cardinality(ValidBlocks))
    /\ \A k \in 1..Len(output.value) :
         \E i \in ValidBlocks :
           /\ Cardinality(Before(i)) = k - 1
           /\ MadeFrom(output.value[k], Blocks[i])

\* Of two valid blocks scored 0.4 and 0.95, in this order, the one scored
\* 0.95 alone has been returned for count 1.
C18_Witness ==
  /\ HighlightsDone
  /\ op.count = 1
  /\ Len(Blocks) = 2
  /\ ValidBlocks = {1, 2}
  /\ parseFloat(Blocks[1].score) = Num(40)
  /\ parseFloat(Blocks[2].score) = Num(95)
  /\ Len(output.value) = 1
  /\ output.value[1].score = Num(95)

\* The seconds a clock text H:MM:SS, M:SS or S stands for: its parts read
\* in base 60.
RECURSIVE Base60(_)
Base60(parts) ==
  IF parts = <<>> THEN 0
  ELSE 60 * Base60(SubSeq(parts, 1, Len(parts) - 1))
       + DecimalValue(parts[Len(parts)])

ClockSeconds(text) == Base60(Split(text, ":"))

\* The chapter extractor has answered.
ChaptersDone ==
  opc = "done" /\ op.name = "chapters" /\ response # Undefined

\* The number of placeholder chapters for a duration of d seconds:
\* floor(d / 300), at least 5 and at most 15.
PlaceholderCount(d) ==
  LET n == d \div 300 IN IF n < 5 THEN 5 ELSE IF n > 15 THEN 15 ELSE n

\* The returned chapters are the placeholders of the duration: their count,
\* their even spacing, their generic titles and their auto-generated mark.
Placeholders ==
  LET d == op.videoDuration.c \div 100
      n == PlaceholderCount(d)
      out == output.value
  IN /\ output.kind = "value"
     /\ Len(out) = n
     /\ \A k \in 1..Len(out) :
          /\ ClockSeconds(out[k].timestamp) = (k - 1) * (d \div n)
          /\ out[k].title = <<"C","h","a","p","t","e","r"," ">> \o NumToString(k)
          /\ out[k].description = <<"A","u","t","o","-","g","e","n","e","r","a","t","e","d"," ","c","h","a","p","t","e","r">>

\* C17 as stated: when the generated text yields no chapter, the chapter
\* extractor returns exactly clamp(floor(totalDuration / 300), 5, 15)
\* placeholder chapters, chapter i (0-based) at i * floor(totalDuration / N)
\* seconds, every timestamp inside [0, totalDuration), each titled
\* generically and marked as auto-generated.
C17_PlaceholdersInsideDuration ==
  (ChaptersDone /\ response.chapterMatches = <<>>) =>
    /\ Placeholders
    /\ \A k \in 1..Len(output.value) :
         ClockSeconds(output.value[k].timestamp) < op.videoDuration.c \div 100

\* C17 amended: the placeholders are returned for every duration, and their
\* timestamps are inside [0, totalDuration) when totalDuration is at least 1.
C17_Placeholders ==
  (ChaptersDone /\ response.chapterMatches = <<>>) =>
    /\ Placeholders
    /\ op.videoDuration.c >= 100 =>
         \A k \in 1..Len(output.value) :
           ClockSeconds(output.value[k].timestamp) < op.videoDuration.c \div 100

\* Six placeholders have been returned for a duration of 1800 seconds, the
\* last one at 25:00.
C17_Witness ==
  /\ ChaptersDone
  /\ response.chapterMatches = <<>>
  /\ op.videoDuration = Num(180000)
  /\ Len(output.value) = 6
  /\ output.value[6].timestamp = <<"2","5",":","0","0">>

\* The keyword extractor has answered.
KeywordsDone ==
  opc = "done" /\ op.name = "keywords" /\ response # Undefined

\* A match of a keyword pattern the regex tier accepts.
ValidKeywordMatch(m) ==
  /\ Trim(m.kw) # <<>>
  /\ InUnitRange(m.rel)
  /\ ~isNaN(parseInt(m.freq))

\* The returned keyword w is made from a match of one of the two patterns.
FromPattern(w) ==
  \E m \in {response.p1[i] : i \in 1..Len(response.p1)}
           \cup {response.p2[i] : i \in 1..Len(response.p2)} :
    /\ ValidKeywordMatch(m)
    /\ w.keyword = Trim(m.kw)
    /\ w.relevance = parseFloat(m.rel)
    /\ w.frequency = parseInt(m.freq)

\* C19: when the JSON tier yields fewer than min(3, count) valid entries
\* (the JSON not parsing included), none of its entries is returned and the
\* patterns are consulted; when it yields at least min(3, count), the first
\* count of them are returned and no pattern is consulted.
C19_JsonThreshold ==
  KeywordsDone =>
    LET items == response.json.items
        out == output.value
        first == {i \in 1..Len(response.p1) : ValidKeywordMatch(response.p1[i])}
    IN IF JsonTierWins
       THEN LET at == Positions(items, {i \in 1..Len(items) : WellTypedEntry(items[i])})
            IN /\ Len(out) = Min(op.count, Len(at))
               /\ \A k \in 1..Len(out) :
                    /\ out[k].keyword = Trim(items[at[k]].keyword.s)
                    /\ ~FromPattern(out[k])
       ELSE /\ \A k \in 1..Len(out) : FromPattern(out[k])
            /\ Cardinality(first) >= Min(3, op.count) =>
                 Len(out) = Min(op.count, Cardinality(first))

\* The JSON array held one well-typed entry where two were asked for, and
\* the two matches of the first pattern have been returned instead.
C19_Witness ==
  /\ KeywordsDone
  /\ op.count = 2
  /\ response.json.state = "array"
  /\ Len(response.json.items) = 1
  /\ WellTypedEntry(response.json.items[1])
  /\ Len(output.value) = 2
  /\ \A k \in 1..2 : FromPattern(output.value[k])

\* C20: the chapter list returned is sorted by timestamp in non-decreasing
\* order, parsed chapters and placeholders alike.
C20_ChaptersSorted ==
  ChaptersDone =>
    \A k \in 1..(Len(output.value) - 1) :
      ClockSeconds(output.value[k].timestamp)
        <= ClockSeconds(output.value[k + 1].timestamp)

\* Chapters parsed at 4000 and at 90 seconds have been returned as 1:30
\* followed by 1:06:40.
C20_Witness ==
  /\ ChaptersDone
  /\ Len(response.chapterMatches) = 2
  /\ parseInt(response.chapterMatches[1].ts) = Num(400000)
  /\ parseInt(response.chapterMatches[2].ts) = Num(9000)
  /\ output.value[1].timestamp = <<"1",":","3","0">>
  /\ output.value[2].timestamp = <<"1",":","0","6",":","4","0">>

(***************************************************************************)
(* The summary extractor                                                   *)
(***************************************************************************)

SummaryDone ==
  opc = "done" /\ op.name = "summarize" /\ response # Undefined

\* The text a line of the key-points block carries as a bullet: what follows
\* its leading dash, without the surrounding blanks; empty for a line that is
\* no bullet.
BulletText(line) ==
  LET l == Trim(line)
  IN IF l # <<>> /\ Head(l) = "-" THEN Trim(Tail(l)) ELSE <<>>

\* The non-empty bullets of the key-points block, in their order.
Bullets ==
  IF response.keyPointsMatch.matched
  THEN LET lines == Split(Trim(response.keyPointsMatch.group), "\n")
       IN SelectSeq([i \in 1..Len(lines) |-> BulletText(lines[i])],
                    LAMBDA t : t # <<>>)
  ELSE <<>>

\* C21: the summary extractor returns a non-empty keyPoints list; without a
\* key-points block, or with no non-empty bullet in it, keyPoints is the
\* one-element list holding the summary text, and otherwise it is the
\* bullets in their original order.
C21_KeyPointsOrSummary ==
  SummaryDone =>
    /\ output.value.keyPoints # <<>>
    /\ output.value.keyPoints =
         IF Bullets = <<>> THEN <<output.value.summary>> ELSE Bullets


(***************************************************************************)
(* Specification of concurrent invocations: every withRetry invocation is  *)
(* made with its own options, and the steps of the invocations interleave  *)
(* in any order.                                                           *)
(***************************************************************************)

InitConcurrent ==
  /\ surface = "none"
  /\ raw = Undefined
  /\ classified = Undefined
  /\ calls \in [Calls ->
       {Pending(o) : o \in
          {<<>>, [shouldRetry |-> "isRetryableError"],
           [maxAttempts |-> 2, initialDelay |-> 500, maxDelay |-> 8000,
            shouldRetry |-> "always"]}}]
  /\ NoOperation
  /\ NoRequest
  /\ NoClient

\* fn of some invocation throws a retryable or a non-retryable Error.
ConcurrentReject ==
  \E c \in Calls, e \in {NewError(FRAG.Timeout), NewError(FRAG.Boom)} :
    FnReject(c, e) /\ UNCHANGED <<classVars, extractVars, serverVars, clientVars>>

NextConcurrent ==
  \/ DoCall
  \/ DoFnResolve
  \/ ConcurrentReject
  \/ DoTimerFire

SpecConcurrent == InitConcurrent /\ [][NextConcurrent]_vars

\* What an invocation has done is determined by its own options and the
\* outcomes of its own operation: it invoked the operation once per failure,
\* plus once when an attempt is in flight or has resolved, never more than
\* its own maxAttempts times, and waited after each failure but a final one
\* the delay of its own policy.
OwnCountsAndDelays(f) ==
  /\ f.pc # "start" =>
       /\ f.maxAttempts = Option(f.options, "maxAttempts", DefaultMaxAttempts)
       /\ f.invocations <= f.maxAttempts
  /\ f.invocations =
       Len(f.failures) + (IF f.pc \in {"awaitFn", "returned"} THEN 1 ELSE 0)
  /\ Len(f.delays) = Len(f.failures) - (IF f.pc = "thrown" THEN 1 ELSE 0)
  /\ \A n \in 1..Len(f.delays) :
       f.delays[n] =
         Min(Option(f.options, "initialDelay", DefaultInitialDelay) * 2^(n - 1),
             Option(f.options, "maxDelay", DefaultMaxDelay))

\* An invocation that is not finished can take its next step whatever the
\* other invocations are doing.
CanProceed(c) ==
  /\ calls[c].pc = "start" =>
       ENABLED (Call(c) /\ UNCHANGED <<classVars, extractVars, serverVars, clientVars>>)
  /\ calls[c].pc = "awaitFn" =>
       ENABLED (\E v \in ResolvedValues :
                  FnResolve(c, v) /\ UNCHANGED <<classVars, extractVars, serverVars, clientVars>>)
  /\ calls[c].pc = "delay" =>
       ENABLED (TimerFire(c) /\ UNCHANGED <<classVars, extractVars, serverVars, clientVars>>)

\* C22 (state part): the counts and delays of each invocation are its own,
\* and an invocation suspended in a backoff delay blocks no other.
C22_State ==
  \A c \in Calls :
    /\ OwnCountsAndDelays(calls[c])
    /\ (\E d \in Calls \ {c} : calls[d].pc = "delay") => CanProceed(c)

\* C22 (step part): a step of one invocation changes nothing of another.
C22_Step ==
  \A c \in Calls :
    calls'[c] # calls[c] => \A d \in Calls \ {c} : calls'[d] = calls[d]

\* C22: for any interleaving of concurrent withRetry invocations, each
\* invocation's attempt count and delays depend only on its own operation's
\* outcomes and its own policy, each invokes its operation at most its own
\* maxAttempts times, no counter is shared, and an invocation suspended in a
\* backoff delay does not prevent another from making progress.
C22_IndependentInvocations == [](C22_State) /\ [][C22_Step]_vars

\* One invocation made its first attempt and is suspended in its backoff
\* delay; the other, with a different policy, has meanwhile exhausted its
\* own two attempts.
C22_Witness ==
  \E c \in Calls, d \in Calls :
    /\ c # d
    /\ calls[c].pc = "delay"
    /\ calls[c].invocations = 1
    /\ calls[c].maxAttempts = 3
    /\ calls[d].pc = "thrown"
    /\ calls[d].maxAttempts = 2
    /\ calls[d].invocations = 2
    /\ calls[d].delays = <<500>>


(***************************************************************************)
(* Retries of the text generation                                          *)
(***************************************************************************)

\* The classified failure e was made from a raw failure whose message
\* mentions a timeout or the network.
TransientNetwork(e) ==
  LET message == ToLowerCase(e.details.message) IN
  Includes(message, KW.timeout) \/ Includes(message, KW.network)

\* C23: when the provider fails on every call with a transient network
\* failure (raw message containing "timeout" or "network"), generateText
\* invokes the provider maxAttempts (3) times, with the backoff delays
\* between the attempts, before it propagates the failure.
C23_TransientFailureRetried ==
  LET f == calls[OpCall] IN
  (/\ f.pc = "thrown"
   /\ f.failures # <<>>
   /\ \A i \in 1..Len(f.failures) : TransientNetwork(f.failures[i])) =>
    /\ f.invocations = DefaultMaxAttempts
    /\ f.delays = <<1000, 2000>>


\* The matches of the three highlight patterns, in their declared order.
Patterns == <<response.p1, response.p2, response.p3>>

\* The patterns that match somewhere in the response.
Matching == {k \in 1..3 : Patterns[k] # <<>>}

\* C24: the three highlight patterns are tried in declared order and a
\* pattern is applied only when those before it produced no match: the
\* highlights returned all come from the first pattern with a match, none
\* from a later one, and when every match of that pattern fails validation
\* the result is empty, whatever a later pattern would match.
C24_FirstMatchingPattern ==
  HighlightsDone =>
    IF Matching = {} THEN output.value = <<>>
    ELSE LET w == CHOOSE k \in Matching : \A j \in Matching : k <= j
             ms == Patterns[w]
         IN /\ \A n \in 1..Len(output.value) :
                 /\ \E i \in 1..Len(ms) :
                      ValidBlock(ms[i]) /\ MadeFrom(output.value[n], ms[i])
                 /\ \A j \in Matching \ {w} : \A i \in 1..Len(Patterns[j]) :
                      ~MadeFrom(output.value[n], Patterns[j][i])
            /\ (\A i \in 1..Len(ms) : ~ValidBlock(ms[i])) => output.value = <<>>

\* No match of the first pattern was valid, the second pattern matches a
\* valid block, and nothing has been returned.
C24_Witness ==
  /\ HighlightsDone
  /\ response.p1 # <<>>
  /\ \A i \in 1..Len(response.p1) : ~ValidBlock(response.p1[i])
  /\ response.p2 # <<>>
  /\ ValidBlock(response.p2[1])
  /\ output.value = <<>>


\* The matches in ms that the regex tier accepts.
ValidMatches(ms) == {ms[i] : i \in {j \in 1..Len(ms) : ValidKeywordMatch(ms[j])}}

\* The number of matches in ms that the regex tier accepts.
ValidCount(ms) == Cardinality({i \in 1..Len(ms) : ValidKeywordMatch(ms[i])})

\* The returned keyword w is made from the match m.
KeywordOf(w, m) ==
  /\ w.keyword = Trim(m.kw)
  /\ w.relevance = parseFloat(m.rel)
  /\ w.frequency = parseInt(m.freq)

\* C25: the keywords returned are matched by the single winning tier.  When
\* the JSON tier does not win, they are the valid matches of the first
\* pattern that has min(3, count) of them on its own; matches of a pattern
\* below the threshold are neither returned nor counted towards the next
\* pattern's threshold, and nothing is returned when no pattern reaches it.
C25_SingleWinningTier ==
  (KeywordsDone /\ ~JsonTierWins) =>
    LET out == output.value
        t == Min(3, op.count)
        winner == IF ValidCount(response.p1) >= t THEN response.p1
                  ELSE IF ValidCount(response.p2) >= t THEN response.p2
                  ELSE <<>>
    IN /\ Len(out) = Min(op.count, ValidCount(winner))
       /\ \A k \in 1..Len(out) :
            \E m \in ValidMatches(winner) : KeywordOf(out[k], m)


\* C26: every keyword returned, whichever tier produced it, has a relevance
\* in [0, 1] and a frequency of at least 1, and at most count keywords are
\* returned.
C26_KeywordRanges ==
  KeywordsDone =>
    /\ Len(output.value) <= op.count
    /\ \A k \in 1..Len(output.value) :
         LET w == output.value[k] IN
         /\ ~isNaN(w.relevance)
         /\ Geq(w.relevance, Num(0))
         /\ Leq(w.relevance, Num(100))
         /\ Geq(w.frequency, Num(100))


\* C27: every chapter returned has a timestamp within [0, totalDuration]; a
\* parsed chapter whose timestamp exceeds the total duration is not returned.
C27_ChaptersWithinDuration ==
  ChaptersDone =>
    \A k \in 1..Len(output.value) :
      /\ ClockSeconds(output.value[k].timestamp) >= 0
      /\ ClockSeconds(output.value[k].timestamp) <= op.videoDuration.c \div 100


(***************************************************************************)
(* The transcript fallback of summarize_video                              *)
(***************************************************************************)

\* C28: when retrieval of the official transcript fails, summarizeVideo
\* falls back to generating the transcript and answers from a transcript it
\* got that way: the request does not fail for want of a transcript.
C28_FallbackGivesSummary ==
  (request.name # "none" /\ request.retrieval = "rejected" /\ reply # Undefined) =>
    /\ request.source # "none"
    /\ reply.isError => reply.body = toErrorResponse(classifyAIError(raw))


(***************************************************************************)
(* Specification of the YouTube client: concurrent getVideoInfo calls on   *)
(* one YouTubeClient instance, each wrapped in withRetry, around the one   *)
(* creation of the underlying client.                                      *)
(***************************************************************************)

\* Variant of initialize that starts a new creation when the earlier one was
\* rejected.
initialize_recreate(y, c) ==
  IF y.client # "null" THEN [y EXCEPT !.at[c] = "awaitInfo"]
  ELSE IF y.initPromise \in {"pending", "fulfilled"} THEN [y EXCEPT !.at[c] = "awaitInit"]
  ELSE [y EXCEPT !.initPromise = "pending", !.creations = @ + 1,
                 !.at[c] = "awaitInit"]

\* getClient -> initialize, in the synchronous run that starts the callback
\* of call c: with a client it returns and client.getInfo is awaited; with
\* an initPromise it awaits that; otherwise it calls Innertube.create, stores
\* the promise of the creation in initPromise and awaits it.
initialize(y, c) ==
  IF y.client # "null" THEN [y EXCEPT !.at[c] = "awaitInfo"]
  ELSE IF y.initPromise # "null" THEN [y EXCEPT !.at[c] = "awaitInit"]
  ELSE [y EXCEPT !.initPromise = "pending", !.creations = @ + 1,
                 !.at[c] = "awaitInit"]

\* What Innertube.create can reject with.
CreationFailures ==
  {NewError(m) : m \in {FRAG.Video_not_found, FRAG.Private_video, FRAG.restricted,
                        FRAG.geo_blocked_country, FRAG.Rate_limit, FRAG.Boom}}

InitYouTube ==
  /\ surface = "none"
  /\ raw \in CreationFailures
  /\ classified = Undefined
  /\ calls = [c \in Calls |-> Pending([shouldRetry |-> "isRetryableError"])]
  /\ NoOperation
  /\ NoRequest
  /\ NoClient

\* getVideoInfo is called: withRetry runs its callback for the first time.
GetVideoInfoCall ==
  \E c \in Calls :
    /\ Call(c)
    /\ youtube' = initialize(youtube, c)
    /\ UNCHANGED <<classVars, extractVars, serverVars>>

\* Innertube.create resolves: this.client is set and initPromise fulfilled.
CreateResolves ==
  /\ youtube.initPromise = "pending"
  /\ youtube' = [youtube EXCEPT !.client = "created", !.initPromise = "fulfilled"]
  /\ UNCHANGED <<classVars, retryVars, extractVars, serverVars>>

\* Innertube.create rejects: initPromise is rejected with the classified
\* failure and stays in place.
CreateRejects ==
  /\ youtube.initPromise = "pending"
  /\ youtube' = [youtube EXCEPT !.initPromise = "rejected",
                                !.reason = classifyYouTubeError(raw)]
  /\ UNCHANGED <<classVars, retryVars, extractVars, serverVars>>

\* await this.initPromise ends in initialize.  Fulfilled: getClient returns
\* the client (or throws when there is none) and client.getInfo is awaited.
\* Rejected: the rejection passes through getClient into the catch of the
\* callback, which classifies it again and throws it into withRetry.
InitializeSettles ==
  \E c \in Calls :
    /\ youtube.at[c] = "awaitInit"
    /\ youtube.initPromise \in {"fulfilled", "rejected"}
    /\ IF youtube.initPromise = "fulfilled" /\ youtube.client # "null"
       THEN /\ youtube' = [youtube EXCEPT !.at[c] = "awaitInfo"]
            /\ UNCHANGED calls
       ELSE /\ FnReject(c, classifyYouTubeError(
                             IF youtube.initPromise = "rejected" THEN youtube.reason
                             ELSE YTNinjaError("UNKNOWN_ERROR",
                                    <<"F","a","i","l","e","d"," ","t","o"," ","i","n","i","t","i","a","l","i","z","e"," ","Y","o","u","T","u","b","e"," ","c","l","i","e","n","t">>,
                                    Undefined, <<>>)))
            /\ youtube' = [youtube EXCEPT !.at[c] = "idle"]
    /\ UNCHANGED <<classVars, extractVars, serverVars>>

\* client.getInfo resolves and the callback returns the video information.
GetInfoResolves ==
  \E c \in Calls, v \in ResolvedValues :
    /\ youtube.at[c] = "awaitInfo"
    /\ FnResolve(c, v)
    /\ youtube' = [youtube EXCEPT !.at[c] = "idle"]
    /\ UNCHANGED <<classVars, extractVars, serverVars>>

\* client.getInfo rejects: the catch of the callback classifies the failure
\* and throws it into withRetry.
GetInfoRejects ==
  \E c \in Calls, e \in {NewError(FRAG.Rate_limit), NewError(FRAG.Video_not_found)} :
    /\ youtube.at[c] = "awaitInfo"
    /\ FnReject(c, classifyYouTubeError(e))
    /\ youtube' = [youtube EXCEPT !.at[c] = "idle"]
    /\ UNCHANGED <<classVars, extractVars, serverVars>>

\* The backoff delay of a call ends and withRetry runs its callback again.
GetVideoInfoRetry ==
  \E c \in Calls :
    /\ TimerFire(c)
    /\ youtube' = initialize(youtube, c)
    /\ UNCHANGED <<classVars, extractVars, serverVars>>

NextYouTube ==
  \/ GetVideoInfoCall
  \/ CreateResolves
  \/ CreateRejects
  \/ InitializeSettles
  \/ GetInfoResolves
  \/ GetInfoRejects
  \/ GetVideoInfoRetry

SpecYouTube == InitYouTube /\ [][NextYouTube]_vars

\* Two failures are the same error for a caller: code, message, suggestions.
SameError(a, b) ==
  /\ a.kind = b.kind
  /\ a.code = b.code
  /\ a.message = b.message
  /\ a.suggestions = b.suggestions

\* C29: for any interleaving of concurrent calls the underlying client is
\* created at most once per instance; if that creation fails, creation is
\* not attempted again and every attempt of every call, retries included,
\* fails with the same initialization error.
C29_CreatedOnce ==
  /\ youtube.creations <= 1
  /\ youtube.initPromise = "rejected" =>
       /\ youtube.client = "null"
       /\ \A c \in Calls :
            /\ calls[c].pc # "returned"
            /\ \A i \in 1..Len(calls[c].failures) :
                 SameError(calls[c].failures[i], youtube.reason)

\* The creation was rejected with a rate-limit failure; one call has made
\* its three attempts and the other one its first, all failing with that
\* error, and the client has been created once.
C29_Witness ==
  /\ youtube.initPromise = "rejected"
  /\ youtube.reason.code = "RATE_LIMITED"
  /\ youtube.creations = 1
  /\ \E c \in Calls, d \in Calls :
       /\ c # d
       /\ calls[c].pc = "thrown"
       /\ Len(calls[c].failures) = 3
       /\ Len(calls[d].failures) >= 1


(***************************************************************************)
(* What withRetry propagates                                               *)
(***************************************************************************)

\* C30: for every policy, maxAttempts = 0 included, withRetry invokes the
\* operation at least once, and every failure it propagates is an Error
\* value, the one raised by the last attempt made (a thrown value that is no
\* Error being wrapped into an Error carrying its string form).
C30_PropagatesAnError ==
  \A c \in Calls :
    LET f == calls[c] IN
    Done(f) =>
      /\ f.invocations >= 1
      /\ f.pc = "thrown" =>
           /\ InstanceOfError(f.result)
           /\ f.failures # <<>>
           /\ f.result = f.failures[Len(f.failures)]


====
